---- MODULE Spec2Model ----
(***************************************************************************)
(* Model of the email auto-reply pipeline: the rule filter engine          *)
(* (src/filters/engine.js), the batch processor                            *)
(* (src/processor/emailProcessor.js), the mailbox collaborator             *)
(* (src/gmail/emailService.js) and the harness that starts batch runs      *)
(* (scheduler/cronScheduler.js, the MCP and HTTP process_emails_now).      *)
(*                                                                         *)
(* Strings are sequences of one-character strings.  An optional JSON field *)
(* is a sequence of length at most one: <<>> when the field is absent      *)
(* (undefined), <<v>> when it is present with value v.                     *)
(***************************************************************************)
EXTENDS Integers, Sequences, FiniteSets, TLC

VARIABLES
    rulesFile,      \* parsed content of config/rules.json as it is on disk
    rulesCache,     \* engine.js rulesCache: <<>> is null, <<data>> is loaded
    markFlag,       \* process.env.MARK_AS_READ_AFTER_REPLY
    probe,          \* one direct call of an exported engine function
    runs,           \* the batch runs (processBatch activations) by slot
    mailbox,        \* the mailbox as the Gmail API holds it, by message id
    scheduledTask,  \* cronScheduler.js scheduledTask: FALSE is null
    fileBroken,     \* config/rules.json is missing or is not valid JSON
    reads,          \* how many times loadRules has read config/rules.json
    stats,          \* the MCP handler's processing_stats
    timers,         \* how many cron tasks created by startScheduler are active
    invocations,    \* toggle_rule / update_rule invocations, by request
    mcpSessions,    \* part_000 mcpSessions: the session ids the store holds
    transports,     \* the StreamableHTTPServerTransport objects created so far
    requests        \* the /mcp requests in flight or answered

vars == <<rulesFile, rulesCache, markFlag, probe, runs, mailbox, scheduledTask,
          fileBroken, reads, stats, timers, invocations, mcpSessions, transports, requests>>

sessionVars == <<mcpSessions, transports, requests>>

----------------------------------------------------------------------------
(* Bounds *)

MaxSubjLen == 1     \* longest subject drawn for a probed message
MaxKeywords == 2    \* most keywords in a drawn rule
MaxBatch == 3       \* longest list handed to processBatch

----------------------------------------------------------------------------
(* Strings *)

Letters == {"a", "A", "b"}

Strs(n) == UNION {[1..k -> Letters] : k \in 0..n}

\* String.prototype.toLowerCase, one character
LowerChar(c) == CASE c = "A" -> "a" [] c = "B" -> "b" [] OTHER -> c

\* String.prototype.toLowerCase
ToLowerCase(s) == [i \in 1..Len(s) |-> LowerChar(s[i])]

\* does needle start at position i of hay (1-based), compared char by char
RECURSIVE MatchAt(_, _, _, _)
MatchAt(hay, needle, i, j) ==
    IF j > Len(needle) THEN TRUE
    ELSE IF i + j - 1 > Len(hay) THEN FALSE
    ELSE IF hay[i + j - 1] # needle[j] THEN FALSE
    ELSE MatchAt(hay, needle, i, j + 1)

\* String.prototype.includes: scan the start positions left to right
RECURSIVE IncludesFrom(_, _, _)
IncludesFrom(hay, needle, i) ==
    IF i + Len(needle) - 1 > Len(hay) THEN FALSE
    ELSE IF MatchAt(hay, needle, i, 1) THEN TRUE
    ELSE IncludesFrom(hay, needle, i + 1)

Includes(hay, needle) == IncludesFrom(hay, needle, 1)

\* `x || []` on an optional list
OrEmpty(opt) == IF opt = <<>> THEN <<>> ELSE opt[1]

----------------------------------------------------------------------------
(* Filter engine, src/filters/engine.js *)

\* loadRules: the value returned, given the cache and the file
LoadRules(cache, file) == IF cache # <<>> THEN cache[1] ELSE file

\* loadRules: the cache it leaves behind
CacheAfterLoad(cache, file) == IF cache # <<>> THEN cache ELSE <<file>>

\* faulty variant of loadRules: no early return, the file is read on every call
ReadsAfterLoad_Always(cache, n) == n + 1

\* loadRules reads the file only past the early return on a filled cache
ReadsAfterLoad(cache, n) == IF cache # <<>> THEN n ELSE n + 1

\* loadRules throws: the cache is empty and readFileSync or JSON.parse fails
LoadThrows(cache, broken) == cache = <<>> /\ broken

\* getIgnoreRules: data.ignore_rules || {}
GetIgnoreRules(data) ==
    IF data.ignore_rules = <<>>
    THEN [ignore_senders |-> <<>>, ignore_subject_contains |-> <<>>]
    ELSE data.ignore_rules[1]

ShouldIgnoreSender(data, emailFrom) ==
    LET ignoreSenders == OrEmpty(GetIgnoreRules(data).ignore_senders)
        lowerFrom == ToLowerCase(emailFrom)
        Hit(sender) == Includes(lowerFrom, ToLowerCase(sender))
    IN  \E i \in 1..Len(ignoreSenders) : Hit(ignoreSenders[i])

ShouldIgnoreBySubject(data, emailSubject) ==
    LET ignoreSubjects == OrEmpty(GetIgnoreRules(data).ignore_subject_contains)
        lowerSubject == ToLowerCase(emailSubject)
        Hit(phrase) == Includes(lowerSubject, ToLowerCase(phrase))
    IN  \E i \in 1..Len(ignoreSubjects) : Hit(ignoreSubjects[i])

ShouldIgnoreEmail(data, email) ==
    IF ShouldIgnoreSender(data, email.from) THEN TRUE
    ELSE IF ShouldIgnoreBySubject(data, email.subject) THEN TRUE
    ELSE FALSE

\* faulty variant of checkKeywordMatch: the keyword is not lower-cased
CheckKeywordMatch_KeywordCase(emailBody, keywords, mustMatch) ==
    LET lowerBody == ToLowerCase(emailBody)
        Hit(keyword) == Includes(lowerBody, keyword)
    IN  IF mustMatch = <<"all">>
        THEN \A i \in 1..Len(keywords) : Hit(keywords[i])
        ELSE \E i \in 1..Len(keywords) : Hit(keywords[i])

\* Array.prototype.every for 'all', Array.prototype.some otherwise
CheckKeywordMatch(emailBody, keywords, mustMatch) ==
    LET lowerBody == ToLowerCase(emailBody)
        Hit(keyword) == Includes(lowerBody, ToLowerCase(keyword))
    IN  IF mustMatch = <<"all">>
        THEN \A i \in 1..Len(keywords) : Hit(keywords[i])
        ELSE \E i \in 1..Len(keywords) : Hit(keywords[i])

\* the template literal `${email.subject} ${email.body}`
EmailContent(email) == email.subject \o <<" ">> \o email.body

\* faulty variant of evaluateRule: the enabled flag is not looked at
EvaluateRule_IgnoresEnabled(rule, email) ==
    IF rule.conditions.keywords # <<>> /\ Len(rule.conditions.keywords[1]) > 0
    THEN CheckKeywordMatch(EmailContent(email),
                           rule.conditions.keywords[1],
                           rule.conditions.mustMatch)
    ELSE FALSE

EvaluateRule(rule, email) ==
    IF ~rule.enabled THEN FALSE
    ELSE IF rule.conditions.keywords # <<>> /\ Len(rule.conditions.keywords[1]) > 0
    THEN CheckKeywordMatch(EmailContent(email),
                           rule.conditions.keywords[1],
                           rule.conditions.mustMatch)
    ELSE FALSE

\* Array.prototype.filter keeps the elements in their order
GetMatchingRules(data, email) ==
    LET rules == OrEmpty(data.rules)
        Keep(rule) == EvaluateRule(rule, email)
    IN  SelectSeq(rules, Keep)

\* faulty variant of shouldProcessEmail: the ignore rules are not consulted
ShouldProcessEmail_NoIgnore(data, email) ==
    Len(GetMatchingRules(data, email)) > 0

ShouldProcessEmail(data, email) ==
    IF ShouldIgnoreEmail(data, email) THEN FALSE
    ELSE Len(GetMatchingRules(data, email)) > 0

\* the literal 'This is an email message', kept as one token
FallbackContext == <<"This is an email message">>

\* faulty variant of the join: the contexts come out last rule first
RECURSIVE JoinContexts_Reversed(_, _)
JoinContexts_Reversed(rules, i) ==
    IF i > Len(rules) THEN <<>>
    ELSE IF i = Len(rules) THEN rules[i].context
    ELSE JoinContexts_Reversed(rules, i + 1) \o <<".", " ">> \o rules[i].context

\* Array.prototype.join('. ') over the contexts of the rules from position i on
RECURSIVE JoinContexts(_, _)
JoinContexts(rules, i) ==
    IF i > Len(rules) THEN <<>>
    ELSE IF i = Len(rules) THEN rules[i].context
    ELSE rules[i].context \o <<".", " ">> \o JoinContexts(rules, i + 1)

\* faulty variant of buildContextFromRules: the rules are taken from the file
\* as it is now, not from the rule set loadRules returned
BuildContextFromRules_Fresh(data, email) ==
    LET matchingRules == GetMatchingRules(rulesFile, email)
    IN  IF Len(matchingRules) = 0 THEN FallbackContext
        ELSE JoinContexts(matchingRules, 1)

BuildContextFromRules(data, email) ==
    LET matchingRules == GetMatchingRules(data, email)
    IN  IF Len(matchingRules) = 0 THEN FallbackContext
        ELSE JoinContexts(matchingRules, 1)

----------------------------------------------------------------------------
(* Inputs drawn for the direct calls of the engine functions *)

KeywordPool == {<<"a">>, <<"A", "b">>, <<"a", " ", "b">>}

\* conditions.keywords: absent, or a list of at most MaxKeywords keywords
KeywordLists ==
    {<<>>} \cup {<<l>> : l \in UNION {[1..k -> KeywordPool] : k \in 0..MaxKeywords}}

\* conditions.mustMatch: absent, "any" or "all"
MatchModes == {<<>>, <<"any">>, <<"all">>}

RuleAt(id, en, kws, mode) ==
    [id |-> id, enabled |-> en,
     conditions |-> [keywords |-> kws, mustMatch |-> mode],
     context |-> IF id = 1 THEN <<"x">> ELSE <<"y">>]

RulesAt(id) ==
    {RuleAt(id, en, kws, mode) : en \in BOOLEAN, kws \in KeywordLists, mode \in MatchModes}

\* the second rule of a two-rule set: one keyword, so that pairs stay few
SecondRules ==
    {RuleAt(2, en, <<<<kw>>>>, <<>>) : en \in BOOLEAN, kw \in KeywordPool}

RuleLists ==
    {<<>>} \cup {<<<<>>>>}
    \cup {<<<<r>>>> : r \in RulesAt(1)}
    \cup {<<<<r, s>>>> : r \in RulesAt(1), s \in SecondRules}

IgnorePool == {<<"a">>, <<"B">>}

IgnoreLists == {<<>>} \cup {<<l>> : l \in {<<>>} \cup {<<p>> : p \in IgnorePool}
                                              \cup {<<p, q>> : p, q \in IgnorePool}}

IgnoreRuleSets ==
    {<<>>} \cup {<<[ignore_senders |-> s, ignore_subject_contains |-> t]>> :
                    s \in IgnoreLists, t \in IgnoreLists}

FromPool == {<<"A">>, <<"b", "A">>}

BodyPool == {<<>>, <<"b">>, <<"a", "B">>}

ProbeEmails ==
    {[id |-> 0, from |-> f, subject |-> s, body |-> b] :
        f \in FromPool, s \in Strs(MaxSubjLen), b \in BodyPool}

\* the rule files of the probes: every rule list with one ignore set, and every
\* ignore set with a few rule lists
FewRuleLists ==
    {<<>>, <<<<>>>>,
     <<<<RuleAt(1, TRUE, <<<< <<"a">> >>>>, <<>>)>>>>,
     <<<<RuleAt(1, TRUE, <<<< <<"A", "b">> >>>>, <<"all">>),
         RuleAt(2, FALSE, <<<< <<"a">> >>>>, <<"any">>)>>>>}

ProbeFiles ==
    {[ignore_rules |-> ig, rules |-> rl] :
        ig \in {<<[ignore_senders |-> << << <<"B">> >> >>, ignore_subject_contains |-> <<>>]>>},
        rl \in RuleLists}
    \cup {[ignore_rules |-> ig, rules |-> rl] : ig \in IgnoreRuleSets, rl \in FewRuleLists}

\* rule files whose rules differ in their context only; a context may spell
\* the very text that buildContextFromRules falls back to
ContextPool == {<<"x">>, <<"y">>, FallbackContext}

ContextRule(id, en, ctx) ==
    [RuleAt(id, en, << << <<"a">> >> >>, <<>>) EXCEPT !.context = ctx]

ContextFiles ==
    {[ignore_rules |-> <<>>,
      rules |-> << <<ContextRule(1, TRUE, c), ContextRule(2, en, d)>> >>] :
        c \in ContextPool, d \in ContextPool, en \in BOOLEAN}

NoProbe == [op |-> "none"]

----------------------------------------------------------------------------
(* Direct calls of the exported engine functions.  Each one goes through   *)
(* loadRules, which fills the cache on the first access.                   *)

batchVars == <<markFlag, runs, mailbox, scheduledTask, timers>>

CallShouldIgnoreEmail ==
    /\ probe.op = "none"
    /\ \E email \in ProbeEmails :
         LET data == LoadRules(rulesCache, rulesFile)
         IN  probe' = [op |-> "shouldIgnoreEmail", email |-> email,
                       result |-> ShouldIgnoreEmail(data, email)]
    /\ rulesCache' = CacheAfterLoad(rulesCache, rulesFile)
    /\ reads' = ReadsAfterLoad(rulesCache, reads)
    /\ UNCHANGED <<invocations, sessionVars, fileBroken, stats, rulesFile, batchVars>>

CallGetMatchingRules ==
    /\ probe.op = "none"
    /\ \E email \in ProbeEmails :
         LET data == LoadRules(rulesCache, rulesFile)
         IN  probe' = [op |-> "getMatchingRules", email |-> email,
                       result |-> GetMatchingRules(data, email)]
    /\ rulesCache' = CacheAfterLoad(rulesCache, rulesFile)
    /\ reads' = ReadsAfterLoad(rulesCache, reads)
    /\ UNCHANGED <<invocations, sessionVars, fileBroken, stats, rulesFile, batchVars>>

CallBuildContextFromRules ==
    /\ probe.op = "none"
    /\ \E email \in ProbeEmails :
         LET data == LoadRules(rulesCache, rulesFile)
         IN  probe' = [op |-> "buildContextFromRules", email |-> email,
                       result |-> BuildContextFromRules(data, email)]
    /\ rulesCache' = CacheAfterLoad(rulesCache, rulesFile)
    /\ reads' = ReadsAfterLoad(rulesCache, reads)
    /\ UNCHANGED <<invocations, sessionVars, fileBroken, stats, rulesFile, batchVars>>

CallShouldProcessEmail ==
    /\ probe.op = "none"
    /\ \E email \in ProbeEmails :
         LET data == LoadRules(rulesCache, rulesFile)
         IN  probe' = [op |-> "shouldProcessEmail", email |-> email,
                       result |-> ShouldProcessEmail(data, email)]
    /\ rulesCache' = CacheAfterLoad(rulesCache, rulesFile)
    /\ reads' = ReadsAfterLoad(rulesCache, reads)
    /\ UNCHANGED <<invocations, sessionVars, fileBroken, stats, rulesFile, batchVars>>

----------------------------------------------------------------------------
(* Batch processor, src/processor/emailProcessor.js.  A run is one         *)
(* activation of processBatch; pc is the await it is suspended at.         *)
(* log, outcomes and pauses record what the run did (log: every            *)
(* collaborator call and what came back; outcomes: what processEmail       *)
(* returned per message; pauses: the pacing timers that have fired).       *)

MaxRuns == 2        \* run slots

RunIds == 1..MaxRuns

MailIds == {1, 2, 3}

\* the messages of the mailbox: 1 matches the rule, 2 matches nothing,
\* 3 matches the rule but comes from an ignored sender
EmailOf(id) ==
    CASE id = 1 -> [id |-> 1, from |-> <<"b">>, subject |-> <<"a">>, body |-> <<>>]
      [] id = 2 -> [id |-> 2, from |-> <<"b">>, subject |-> <<"b">>, body |-> <<"b">>]
      [] OTHER  -> [id |-> 3, from |-> <<"A", "b">>, subject |-> <<"a">>, body |-> <<>>]

BatchFile ==
    [ignore_rules |-> <<[ignore_senders |-> << << <<"a">> >> >>,
                         ignore_subject_contains |-> <<>>]>>,
     rules |-> << <<RuleAt(1, TRUE, << << <<"A">> >> >>, <<>>)>> >>]

BatchInputs == UNION {[1..n -> {EmailOf(id) : id \in MailIds}] : n \in 0..MaxBatch}

\* what the completion call gives back: null, '' or a text
Responses == {<<>>, << <<>> >>, << <<"o", "k">> >>}

MarkFlags == {<<>>, <<"true">>, <<"false">>}

ZeroResults == [total |-> 0, processed |-> 0, skipped |-> 0, failed |-> 0]

\* processing_stats as the handler module initialises it; last_run is null
ZeroStats ==
    [total_processed |-> 0, total_skipped |-> 0, total_failed |-> 0,
     last_run |-> <<>>, runs_today |-> 0]

\* faulty variant: the failed count of the batch is left out
AddToStats_DropsFailed(st, results, r) ==
    [total_processed |-> st.total_processed + results.processed,
     total_skipped |-> st.total_skipped + results.skipped,
     total_failed |-> st.total_failed,
     last_run |-> <<r>>,
     runs_today |-> st.runs_today + 1]

\* process_emails_now of the MCP tool after processBatch has returned: the
\* counters of the batch are added, last_run is stamped (here with the run)
AddToStats(st, results, r) ==
    [total_processed |-> st.total_processed + results.processed,
     total_skipped |-> st.total_skipped + results.skipped,
     total_failed |-> st.total_failed + results.failed,
     last_run |-> <<r>>,
     runs_today |-> st.runs_today + 1]

\* the data of HTTP GET /api/tools/get_statistics: a literal, whatever ran
HttpGetStatistics ==
    [total_processed |-> 0, total_skipped |-> 0, total_failed |-> 0,
     last_run |-> <<>>, runs_today |-> 0]

\* the text of the MCP tool get_statistics: processing_stats as it is
McpGetStatistics(st) == st

IdleRun ==
    [pc |-> "idle", trigger |-> "none", limit |-> 0, emails |-> <<>>, idx |-> 0,
     results |-> ZeroResults, response |-> <<>>,
     outcomes |-> <<>>, log |-> <<>>, pauses |-> 0]

FreshMailbox == [id \in MailIds |-> [unread |-> TRUE, labelled |-> FALSE, replies |-> 0]]

Call(k, op, arg) == [msg |-> k, op |-> op, ev |-> "call", arg |-> arg]

Ret(k, op, ev, val) == [msg |-> k, op |-> op, ev |-> ev, arg |-> val]

\* faulty variant of the tally: only the status 'failed' counts as failed
Tally_ErrorUncounted(results, status) ==
    IF status = "success" THEN [results EXCEPT !.processed = @ + 1]
    ELSE IF status = "skipped" THEN [results EXCEPT !.skipped = @ + 1]
    ELSE IF status = "failed" THEN [results EXCEPT !.failed = @ + 1]
    ELSE results

\* processBatch lines 72-78: fold one processEmail result into the counters
Tally(results, status) ==
    IF status = "success" THEN [results EXCEPT !.processed = @ + 1]
    ELSE IF status = "skipped" THEN [results EXCEPT !.skipped = @ + 1]
    ELSE [results EXCEPT !.failed = @ + 1]

\* processEmail returns `outcome`; processBatch tallies it and starts the
\* 500 ms timer (no other task runs between the return and the tally)
Finish(run, outcome) ==
    [run EXCEPT !.outcomes = Append(@, outcome),
                !.results = Tally(@, outcome.status),
                !.pc = "pause"]

\* faulty variant of the test of the response: only null counts as no text
NoText_NullOnly(response) == response = <<>>

\* `!response`
NoText(response) == response = <<>> \/ response[1] = <<>>

\* processBatch lines 61-69: the counters are set up and the loop is entered
StartBatch(run, emails) ==
    [run EXCEPT !.emails = emails,
                !.results = [ZeroResults EXCEPT !.total = Len(emails)],
                !.idx = 1,
                !.pc = IF Len(emails) = 0 THEN "done" ELSE "start"]

\* faulty variant of the loop: every other message is passed over
NextIndex_Skips(idx) == idx + 2

\* the for-of loop advances to the next element, or processBatch returns
NextIndex(idx) == idx + 1

CallProcessBatch(r) ==
    /\ runs[r].pc = "idle"
    /\ \E emails \in BatchInputs :
         runs' = [runs EXCEPT ![r] = StartBatch([@ EXCEPT !.trigger = "direct"], emails)]
    /\ UNCHANGED <<invocations, sessionVars, fileBroken, reads, stats, rulesFile, rulesCache, markFlag, probe, mailbox, scheduledTask, timers>>

\* faulty variant of processEmail: the early return of a rejected message is
\* missing, the generator is called for every message
BeginEmail_NoSkip(r) ==
    LET run == runs[r]
        email == run.emails[run.idx]
        data == LoadRules(rulesCache, rulesFile)
    IN  /\ run.pc = "start"
        /\ rulesCache' = CacheAfterLoad(rulesCache, rulesFile)
        /\ reads' = ReadsAfterLoad(rulesCache, reads)
        /\ runs' = [runs EXCEPT ![r] =
              [run EXCEPT !.pc = "gen",
                          !.log = Append(@, Call(run.idx, "generate",
                                          BuildContextFromRules(data, email)))]]
        /\ UNCHANGED <<invocations, sessionVars, fileBroken, stats, rulesFile, markFlag, probe, mailbox, scheduledTask, timers>>

\* processEmail lines 9-24: filter, build the context, call the generator.
\* The first engine call goes through loadRules; if that throws, the catch of
\* processEmail (lines 52-55) turns it into the result of this message.
BeginEmail(r) ==
    LET run == runs[r]
        email == run.emails[run.idx]
        data == LoadRules(rulesCache, rulesFile)
    IN  /\ run.pc = "start"
        /\ reads' = ReadsAfterLoad(rulesCache, reads)
        /\ IF LoadThrows(rulesCache, fileBroken)
           THEN /\ rulesCache' = rulesCache
                /\ runs' = [runs EXCEPT ![r] =
                      Finish([run EXCEPT !.log = Append(@, Ret(run.idx, "loadRules", "throw", <<>>))],
                             [status |-> "error", reason |-> "config_error"])]
           ELSE /\ rulesCache' = CacheAfterLoad(rulesCache, rulesFile)
                /\ IF ~ShouldProcessEmail(data, email)
                   THEN runs' = [runs EXCEPT ![r] =
                          Finish(run, [status |-> "skipped", reason |-> "no_matching_rules"])]
                   ELSE runs' = [runs EXCEPT ![r] =
                          [run EXCEPT !.pc = "gen",
                                      !.log = Append(@, Call(run.idx, "generate",
                                                      BuildContextFromRules(data, email)))]]
        /\ UNCHANGED <<invocations, sessionVars, fileBroken, stats, rulesFile, markFlag, probe, mailbox, scheduledTask, timers>>

\* processEmail lines 24-33: the generator's answer; without text the message
\* fails, with text the reply is sent
GeneratorReturns(r) ==
    LET run == runs[r]
    IN  /\ run.pc = "gen"
        /\ \E response \in Responses :
             LET logged == Append(run.log, Ret(run.idx, "generate", "return", response))
             IN  IF NoText(response)
                 THEN runs' = [runs EXCEPT ![r] =
                        Finish([run EXCEPT !.log = logged],
                               [status |-> "failed", reason |-> "response_generation_failed"])]
                 ELSE runs' = [runs EXCEPT ![r] =
                        [run EXCEPT !.pc = "send", !.response = response,
                                    !.log = Append(logged, Call(run.idx, "sendReply", response[1]))]]
        /\ UNCHANGED <<invocations, sessionVars, fileBroken, reads, stats, rulesFile, rulesCache, markFlag, probe, mailbox, scheduledTask, timers>>

\* faulty variant of processEmail: no catch, the generator's exception leaves
\* processBatch
GeneratorThrows_Uncaught(r) ==
    LET run == runs[r]
    IN  /\ run.pc = "gen"
        /\ runs' = [runs EXCEPT ![r] =
              [run EXCEPT !.log = Append(@, Ret(run.idx, "generate", "throw", <<>>)),
                          !.pc = "failed"]]
        /\ UNCHANGED <<invocations, sessionVars, fileBroken, reads, stats, rulesFile, rulesCache, markFlag, probe, mailbox, scheduledTask, timers>>

\* the generator throws: processEmail's catch, lines 52-55
GeneratorThrows(r) ==
    LET run == runs[r]
    IN  /\ run.pc = "gen"
        /\ runs' = [runs EXCEPT ![r] =
              Finish([run EXCEPT !.log = Append(@, Ret(run.idx, "generate", "throw", <<>>))],
                     [status |-> "error", reason |-> "generator_error"])]
        /\ UNCHANGED <<invocations, sessionVars, fileBroken, reads, stats, rulesFile, rulesCache, markFlag, probe, mailbox, scheduledTask, timers>>

\* faulty variant of processEmail: the flag is tested for truthiness, so the
\* string 'false' marks the message read as well
SendReplyReturns_Truthy(r) ==
    LET run == runs[r]
        id == run.emails[run.idx].id
        logged == Append(run.log, Ret(run.idx, "sendReply", "return", <<>>))
    IN  /\ run.pc = "send"
        /\ mailbox' = [mailbox EXCEPT ![id].replies = @ + 1]
        /\ IF markFlag # <<>>
           THEN runs' = [runs EXCEPT ![r] =
                    [run EXCEPT !.pc = "mark",
                                !.log = Append(logged, Call(run.idx, "markAsRead", <<>>))]]
           ELSE runs' = [runs EXCEPT ![r] =
                    [run EXCEPT !.pc = "label",
                                !.log = Append(logged, Call(run.idx, "addLabel", <<"AutoReplied">>))]]
        /\ UNCHANGED <<invocations, sessionVars, fileBroken, reads, stats, rulesFile, rulesCache, markFlag, probe, scheduledTask, timers>>

\* processEmail lines 33-43: the reply is out; mark read if configured, else label
SendReplyReturns(r) ==
    LET run == runs[r]
        id == run.emails[run.idx].id
        logged == Append(run.log, Ret(run.idx, "sendReply", "return", <<>>))
    IN  /\ run.pc = "send"
        /\ mailbox' = [mailbox EXCEPT ![id].replies = @ + 1]
        /\ IF markFlag = <<"true">>
           THEN runs' = [runs EXCEPT ![r] =
                    [run EXCEPT !.pc = "mark",
                                !.log = Append(logged, Call(run.idx, "markAsRead", <<>>))]]
           ELSE runs' = [runs EXCEPT ![r] =
                    [run EXCEPT !.pc = "label",
                                !.log = Append(logged, Call(run.idx, "addLabel", <<"AutoReplied">>))]]
        /\ UNCHANGED <<invocations, sessionVars, fileBroken, reads, stats, rulesFile, rulesCache, markFlag, probe, scheduledTask, timers>>

\* sendReply throws (emailService.js 118-121): processEmail's catch
SendReplyThrows(r) ==
    LET run == runs[r]
    IN  /\ run.pc = "send"
        /\ runs' = [runs EXCEPT ![r] =
              Finish([run EXCEPT !.log = Append(@, Ret(run.idx, "sendReply", "throw", <<>>))],
                     [status |-> "error", reason |-> "send_error"])]
        /\ UNCHANGED <<invocations, sessionVars, fileBroken, reads, stats, rulesFile, rulesCache, markFlag, probe, mailbox, scheduledTask, timers>>

\* faulty variant of markAsRead: a failure of the mailbox is thrown on, and
\* processEmail's catch makes it the result of the message
MarkAsReadReturns_Throws(r) ==
    LET run == runs[r]
        id == run.emails[run.idx].id
    IN  /\ run.pc = "mark"
        /\ \E ok \in BOOLEAN :
             /\ mailbox' = IF ok THEN [mailbox EXCEPT ![id].unread = FALSE] ELSE mailbox
             /\ runs' = [runs EXCEPT ![r] =
                  IF ok
                  THEN [run EXCEPT !.pc = "label",
                              !.log = Append(Append(@, Ret(run.idx, "markAsRead", "return", <<>>)),
                                             Call(run.idx, "addLabel", <<"AutoReplied">>))]
                  ELSE Finish([run EXCEPT !.log = Append(@, Ret(run.idx, "markAsRead", "throw", <<>>))],
                              [status |-> "error", reason |-> "mark_error"])]
        /\ UNCHANGED <<invocations, sessionVars, fileBroken, reads, stats, rulesFile, rulesCache, markFlag, probe, scheduledTask, timers>>

\* markAsRead (emailService.js 127-139) returns whether the mailbox accepted
\* the change or not: a failure is caught and logged there.  Then the label.
MarkAsReadReturns(r) ==
    LET run == runs[r]
        id == run.emails[run.idx].id
    IN  /\ run.pc = "mark"
        /\ \E ok \in BOOLEAN :
             /\ mailbox' = IF ok THEN [mailbox EXCEPT ![id].unread = FALSE] ELSE mailbox
             /\ runs' = [runs EXCEPT ![r] =
                  [run EXCEPT !.pc = "label",
                              !.log = Append(Append(@,
                                        Ret(run.idx, "markAsRead", IF ok THEN "return" ELSE "swallowed", <<>>)),
                                        Call(run.idx, "addLabel", <<"AutoReplied">>))]]
        /\ UNCHANGED <<invocations, sessionVars, fileBroken, reads, stats, rulesFile, rulesCache, markFlag, probe, scheduledTask, timers>>

\* faulty variant of addLabel: a failure of the mailbox is thrown on, and
\* processEmail's catch makes it the result of the message
AddLabelReturns_Throws(r) ==
    LET run == runs[r]
        email == run.emails[run.idx]
    IN  /\ run.pc = "label"
        /\ \E ok \in BOOLEAN :
             /\ mailbox' = IF ok THEN [mailbox EXCEPT ![email.id].labelled = TRUE] ELSE mailbox
             /\ runs' = [runs EXCEPT ![r] =
                  IF ok
                  THEN Finish([run EXCEPT !.log = Append(@, Ret(run.idx, "addLabel", "return", <<>>))],
                              [status |-> "success", from |-> email.from,
                               subject |-> email.subject,
                               responseLength |-> Len(run.response[1])])
                  ELSE Finish([run EXCEPT !.log = Append(@, Ret(run.idx, "addLabel", "throw", <<>>))],
                              [status |-> "error", reason |-> "label_error"])]
        /\ UNCHANGED <<invocations, sessionVars, fileBroken, reads, stats, rulesFile, rulesCache, markFlag, probe, scheduledTask, timers>>

\* addLabel (emailService.js 144-176) returns, its failures swallowed as well;
\* processEmail returns success, lines 46-51
AddLabelReturns(r) ==
    LET run == runs[r]
        email == run.emails[run.idx]
    IN  /\ run.pc = "label"
        /\ \E ok \in BOOLEAN :
             /\ mailbox' = IF ok THEN [mailbox EXCEPT ![email.id].labelled = TRUE] ELSE mailbox
             /\ runs' = [runs EXCEPT ![r] =
                  Finish([run EXCEPT !.log = Append(@,
                            Ret(run.idx, "addLabel", IF ok THEN "return" ELSE "swallowed", <<>>))],
                         [status |-> "success", from |-> email.from,
                          subject |-> email.subject,
                          responseLength |-> Len(run.response[1])])]
        /\ UNCHANGED <<invocations, sessionVars, fileBroken, reads, stats, rulesFile, rulesCache, markFlag, probe, scheduledTask, timers>>

\* processBatch line 81: the 500 ms timer fires and the loop goes on, or
\* processBatch returns its counters.  Of its callers only the MCP tool
\* process_emails_now adds them to processing_stats.
PauseElapses(r) ==
    LET run == runs[r]
        returns == NextIndex(run.idx) > Len(run.emails)
    IN  /\ run.pc = "pause"
        /\ runs' = [runs EXCEPT ![r] =
              [run EXCEPT !.idx = NextIndex(run.idx),
                          !.pauses = @ + 1,
                          !.pc = IF returns THEN "done" ELSE "start"]]
        /\ stats' = IF returns /\ run.trigger = "mcp"
                    THEN AddToStats(stats, run.results, r) ELSE stats
        /\ UNCHANGED <<invocations, sessionVars, fileBroken, reads, rulesFile, rulesCache, markFlag, probe, mailbox, scheduledTask, timers>>

ProcessEmailStep(r) ==
    \/ BeginEmail(r)
    \/ GeneratorReturns(r)
    \/ GeneratorThrows(r)
    \/ SendReplyReturns(r)
    \/ SendReplyThrows(r)
    \/ MarkAsReadReturns(r)
    \/ AddLabelReturns(r)
    \/ PauseElapses(r)

----------------------------------------------------------------------------
(* The harness: scheduler/cronScheduler.js and the process_emails_now      *)
(* operations of the MCP and HTTP surfaces.  Each of them starts a run by  *)
(* fetching the unread messages; none looks at the runs in progress.       *)

FreeSlots == {r \in RunIds : runs[r].pc = "idle"}

\* the slot a new activation takes: the lowest one not used yet
NewSlot == CHOOSE r \in FreeSlots : \A q \in FreeSlots : r <= q

\* maxResults when getUnreadEmails is called without an argument
DefaultMaxResults == 10

\* the limit the scheduler passes to processUnreadEmails
SchedulerLimit == 10

MaxLimit == 2       \* largest limit drawn for a direct processUnreadEmails call

Fetching(trigger, limit) ==
    [IdleRun EXCEPT !.pc = "fetch", !.trigger = trigger, !.limit = limit]

\* faulty variant of the listing: maxResults is not honoured
Take_All(list, n) == list

\* the first n elements of a list, or all of it if it is shorter
Take(list, n) == SubSeq(list, 1, IF n < Len(list) THEN n ELSE Len(list))

\* the ids a `is:unread` listing gives, as a list in id order
RECURSIVE UnreadFrom(_, _)
UnreadFrom(box, id) ==
    IF id \notin DOMAIN box THEN <<>>
    ELSE IF box[id].unread THEN <<EmailOf(id)>> \o UnreadFrom(box, id + 1)
    ELSE UnreadFrom(box, id + 1)

MaxTimers == 2      \* cron tasks created by startScheduler

\* startScheduler: a new cron task is created and kept in scheduledTask,
\* whatever scheduledTask held, and processUnreadEmails(10) is started
\* without being awaited
StartScheduler ==
    /\ timers < MaxTimers
    /\ FreeSlots # {}
    /\ scheduledTask' = TRUE
    /\ timers' = timers + 1
    /\ runs' = [runs EXCEPT ![NewSlot] = Fetching("startup", SchedulerLimit)]
    /\ UNCHANGED <<invocations, sessionVars, fileBroken, reads, stats, rulesFile, rulesCache, markFlag, probe, mailbox>>

\* the callback of an active cron task: processUnreadEmails(10), whatever
\* else is running
TimerTick ==
    /\ timers > 0
    /\ FreeSlots # {}
    /\ runs' = [runs EXCEPT ![NewSlot] = Fetching("timer", SchedulerLimit)]
    /\ UNCHANGED <<invocations, sessionVars, fileBroken, reads, stats, rulesFile, rulesCache, markFlag, probe, mailbox, scheduledTask, timers>>

\* stopScheduler: the task kept in scheduledTask is stopped and forgotten
StopScheduler ==
    /\ scheduledTask
    /\ scheduledTask' = FALSE
    /\ timers' = timers - 1
    /\ UNCHANGED <<invocations, sessionVars, fileBroken, reads, stats, rulesFile, rulesCache, markFlag, probe, mailbox, runs>>

\* SIGINT or SIGTERM: the handler calls stopScheduler and then process.exit(0);
\* whatever the process had not finished is gone with it
Shutdown ==
    /\ \E r \in RunIds : runs[r].pc \notin {"done", "failed", "killed"}
    /\ scheduledTask' = FALSE
    /\ timers' = 0
    /\ runs' = [r \in RunIds |->
                  IF runs[r].pc \in {"done", "failed"} THEN runs[r]
                  ELSE [runs[r] EXCEPT !.pc = "killed"]]
    /\ UNCHANGED <<invocations, sessionVars, fileBroken, reads, stats, rulesFile, rulesCache, markFlag, probe, mailbox>>

\* process_emails_now of the MCP tool or of POST /api/tools/process_emails_now
ProcessEmailsNow ==
    /\ FreeSlots # {}
    /\ \E surface \in {"mcp", "http"} :
         runs' = [runs EXCEPT ![NewSlot] = Fetching(surface, DefaultMaxResults)]
    /\ UNCHANGED <<invocations, sessionVars, fileBroken, reads, stats, rulesFile, rulesCache, markFlag, probe, mailbox, scheduledTask, timers>>

\* processUnreadEmails(limit) called directly
CallProcessUnreadEmails(r) ==
    /\ runs[r].pc = "idle"
    /\ \E limit \in 1..MaxLimit :
         runs' = [runs EXCEPT ![r] = Fetching("call", limit)]
    /\ UNCHANGED <<invocations, sessionVars, fileBroken, reads, stats, rulesFile, rulesCache, markFlag, probe, mailbox, scheduledTask, timers>>

\* getUnreadEmails returns the listing of `is:unread`, cut at maxResults: no
\* message ends the activation with the zero counters, otherwise processBatch
\* starts on the fetched list
FetchReturns(r) ==
    LET emails == Take(UnreadFrom(mailbox, 1), runs[r].limit)
    IN  /\ runs[r].pc = "fetch"
        /\ runs' = [runs EXCEPT ![r] =
              IF Len(emails) = 0 THEN [@ EXCEPT !.pc = "done"] ELSE StartBatch(@, emails)]
        /\ UNCHANGED <<invocations, sessionVars, fileBroken, reads, stats, rulesFile, rulesCache, markFlag, probe, mailbox, scheduledTask, timers>>

\* getUnreadEmails throws: the activation fails, nothing is processed
FetchThrows(r) ==
    /\ runs[r].pc = "fetch"
    /\ runs' = [runs EXCEPT ![r].pc = "failed"]
    /\ UNCHANGED <<invocations, sessionVars, fileBroken, reads, stats, rulesFile, rulesCache, markFlag, probe, mailbox, scheduledTask, timers>>

\* a run is inside processBatch: its loop has started and it has not returned
InProgress(r) == runs[r].pc \in {"start", "gen", "send", "mark", "label", "pause"}

----------------------------------------------------------------------------
(* The rule store over time: engine calls, reloadRules, and the rule       *)
(* management tools of the MCP handler, which rewrite config/rules.json.   *)
(* probe holds the last engine call: what was asked, what came back and,   *)
(* for reference, what the file on disk held at that moment.               *)

MaxReads == 3       \* reads of config/rules.json followed in the rule store

EngineFunctions ==
    {"shouldIgnoreEmail", "getMatchingRules", "shouldProcessEmail", "buildContextFromRules"}

EngineResult(fn, data, email) ==
    CASE fn = "shouldIgnoreEmail" -> ShouldIgnoreEmail(data, email)
      [] fn = "getMatchingRules" -> GetMatchingRules(data, email)
      [] fn = "shouldProcessEmail" -> ShouldProcessEmail(data, email)
      [] OTHER -> BuildContextFromRules(data, email)

StoreEmails ==
    {[id |-> 0, from |-> <<"b">>, subject |-> <<"a">>, body |-> <<>>],
     [id |-> 0, from |-> <<"b">>, subject |-> <<"b">>, body |-> <<>>]}

StoreFile ==
    [ignore_rules |-> <<>>,
     rules |-> << <<RuleAt(1, TRUE, << << <<"a">> >> >>, <<>>)>> >>]

\* rule_id of a management call: an id of the file, or one it does not hold
RuleIdParams == {1, 2, 3}

\* params.keywords of update_rule: absent, [] or ['b']
KeywordParams == {<<>>, << <<>> >>, << << <<"b">> >> >>}

\* params.context of update_rule: absent, '' or 'y'
ContextParams == {<<>>, << <<>> >>, << <<"y">> >>}

\* rules.rules.find(r => r.id === rule_id): the position of the rule, 0 if none
RECURSIVE FindRule(_, _, _)
FindRule(rules, id, i) ==
    IF i > Len(rules) THEN 0
    ELSE IF rules[i].id = id THEN i
    ELSE FindRule(rules, id, i + 1)

\* an exported engine function is called: loadRules, then the function on the
\* rule set it returned; a failed read leaves the call with the exception
CallEngine ==
    /\ ReadsAfterLoad(rulesCache, reads) <= MaxReads
    /\ reads' = ReadsAfterLoad(rulesCache, reads)
    /\ \E fn \in EngineFunctions, email \in StoreEmails :
         IF LoadThrows(rulesCache, fileBroken)
         THEN /\ rulesCache' = rulesCache
              /\ probe' = [op |-> "threw", fn |-> fn, email |-> email, disk |-> rulesFile]
         ELSE /\ rulesCache' = CacheAfterLoad(rulesCache, rulesFile)
              /\ probe' = [op |-> fn, email |-> email, disk |-> rulesFile,
                           result |-> EngineResult(fn, LoadRules(rulesCache, rulesFile), email)]
    /\ UNCHANGED <<invocations, sessionVars, fileBroken, stats, rulesFile, batchVars>>

\* faulty variant of reloadRules: the cache is dropped only once the file has
\* been read, so a failed read leaves the old rule set in place
ReloadRules_KeepsOld ==
    /\ reads < MaxReads
    /\ reads' = ReadsAfterLoad(<<>>, reads)
    /\ rulesCache' = IF LoadThrows(<<>>, fileBroken) THEN rulesCache
                     ELSE CacheAfterLoad(<<>>, rulesFile)
    /\ probe' = [op |-> "reloadRules", threw |-> LoadThrows(<<>>, fileBroken),
                 had |-> rulesCache # <<>>]
    /\ UNCHANGED <<invocations, sessionVars, fileBroken, stats, rulesFile, batchVars>>

\* reloadRules: rulesCache = null, then loadRules (had: the cache was filled
\* when it was called)
ReloadRules ==
    /\ reads < MaxReads
    /\ reads' = ReadsAfterLoad(<<>>, reads)
    /\ rulesCache' = IF LoadThrows(<<>>, fileBroken) THEN <<>>
                     ELSE CacheAfterLoad(<<>>, rulesFile)
    /\ probe' = [op |-> "reloadRules", threw |-> LoadThrows(<<>>, fileBroken),
                 had |-> rulesCache # <<>>]
    /\ UNCHANGED <<invocations, sessionVars, fileBroken, stats, rulesFile, batchVars>>

\* the rules of the file with the rule at position `at` replaced
WithRule(file, at, rule) ==
    [file EXCEPT !.rules = <<[OrEmpty(file.rules) EXCEPT ![at] = rule]>>]

\* what toggle_rule writes for a file that holds the rule
Toggled(file, id, enabled) ==
    LET rules == OrEmpty(file.rules)
        at == FindRule(rules, id, 1)
    IN  WithRule(file, at, [rules[at] EXCEPT !.enabled = enabled])

\* faulty variant of toggle_rule: the handler drops the engine's cache as well
ToggleRule_Invalidates ==
    /\ \E id \in RuleIdParams, enabled \in BOOLEAN :
         LET rules == OrEmpty(rulesFile.rules)
             at == FindRule(rules, id, 1)
             failed == fileBroken \/ at = 0
         IN  /\ rulesFile' = IF failed THEN rulesFile ELSE Toggled(rulesFile, id, enabled)
             /\ probe' = [op |-> "toggle_rule", rule_id |-> id, enabled |-> enabled,
                          isError |-> failed]
    /\ rulesCache' = <<>>
    /\ UNCHANGED <<invocations, sessionVars, fileBroken, reads, stats, batchVars>>

\* toggle_rule: the file is parsed, the rule looked up, its enabled flag set
\* and the file written back; an unknown rule_id or an unreadable file ends
\* in an error answer with nothing written.  probe keeps the call and whether
\* it was answered with an error.
ToggleRule ==
    /\ \E id \in RuleIdParams, enabled \in BOOLEAN :
         LET rules == OrEmpty(rulesFile.rules)
             at == FindRule(rules, id, 1)
             failed == fileBroken \/ at = 0
         IN  /\ rulesFile' = IF failed THEN rulesFile ELSE Toggled(rulesFile, id, enabled)
             /\ probe' = [op |-> "toggle_rule", rule_id |-> id, enabled |-> enabled,
                          isError |-> failed]
    /\ UNCHANGED <<invocations, sessionVars, fileBroken, reads, stats, rulesCache, batchVars>>

\* `if (params.keywords)`: an array, also an empty one, is truthy
KeywordsGiven(keywords) == keywords # <<>>

\* faulty variant of the test of params.context: '' counts as given
ContextGiven_Defined(context) == context # <<>>

\* `if (params.context)`: the empty string is falsy
ContextGiven(context) == context # <<>> /\ context[1] # <<>>

\* what update_rule writes for a file that holds the rule
Updated(file, id, keywords, context) ==
    LET rules == OrEmpty(file.rules)
        at == FindRule(rules, id, 1)
        kws == IF KeywordsGiven(keywords) THEN keywords ELSE rules[at].conditions.keywords
        ctx == IF ContextGiven(context) THEN context[1] ELSE rules[at].context
    IN  WithRule(file, at, [rules[at] EXCEPT !.conditions.keywords = kws, !.context = ctx])

\* update_rule: as toggle_rule, with keywords and context replaced when the
\* parameter is truthy
UpdateRule ==
    /\ \E id \in RuleIdParams, keywords \in KeywordParams, context \in ContextParams :
         LET rules == OrEmpty(rulesFile.rules)
             at == FindRule(rules, id, 1)
             failed == fileBroken \/ at = 0
         IN  /\ rulesFile' = IF failed THEN rulesFile
                             ELSE Updated(rulesFile, id, keywords, context)
             /\ probe' = [op |-> "update_rule", rule_id |-> id, keywords |-> keywords,
                          context |-> context, isError |-> failed]
    /\ UNCHANGED <<invocations, sessionVars, fileBroken, reads, stats, rulesCache, batchVars>>

\* Concurrent invocations of the management tools.  A request arrives and
\* its handler runs later on the event loop, while other requests may have
\* arrived or been handled in between.
MaxCalls == 2       \* management requests

CallIds == 1..MaxCalls

NoCalls == [c \in CallIds |-> [pc |-> "idle"]]

\* keywords and context of the update_rule requests
UpdateParams ==
    { <<kws, ctx>> \in KeywordParams \X ContextParams :
        \/ kws = << << <<"b">> >> >> /\ ctx = <<>>
        \/ kws = <<>> /\ ctx = << <<"y">> >>
        \/ kws = << <<>> >> /\ ctx = << <<>> >> }

EditCalls ==
    { [tool |-> "toggle_rule", rule_id |-> id, enabled |-> en] :
        id \in RuleIdParams, en \in BOOLEAN }
    \cup
    { [tool |-> "update_rule", rule_id |-> id, keywords |-> kc[1], context |-> kc[2]] :
        id \in RuleIdParams, kc \in UpdateParams }

\* what the handler of the call writes for a file that holds the rule
Edited(file, call) ==
    IF call.tool = "toggle_rule"
    THEN Toggled(file, call.rule_id, call.enabled)
    ELSE Updated(file, call.rule_id, call.keywords, call.context)

\* a request for toggle_rule or update_rule arrives; seen keeps the file as
\* it is at this moment
RequestEdit(c) ==
    /\ invocations[c].pc = "idle"
    /\ \E call \in EditCalls :
         invocations' = [invocations EXCEPT ![c] = [pc |-> "queued", call |-> call, seen |-> rulesFile]]
    /\ UNCHANGED <<sessionVars, fileBroken, reads, stats, rulesFile, rulesCache, probe, batchVars>>

\* faulty variant: the handler works from the file as it was when the request
\* arrived, as if it had been suspended between its read and its write
FileRead_AtArrival(c) == invocations[c].seen

\* readFileSync at the start of the handler: nothing runs between it and the
\* writeFileSync that ends the handler
FileRead(c) == rulesFile

\* the handler of a queued request runs from its read to its write
HandleEdit(c) ==
    /\ invocations[c].pc = "queued"
    /\ LET call == invocations[c].call
           base == FileRead(c)
           failed == fileBroken \/ FindRule(OrEmpty(base.rules), call.rule_id, 1) = 0
       IN  /\ rulesFile' = IF failed THEN rulesFile ELSE Edited(base, call)
           /\ invocations' = [invocations EXCEPT ![c] = [pc |-> "done", call |-> call,
                                             seen |-> invocations[c].seen, isError |-> failed]]
    /\ UNCHANGED <<sessionVars, fileBroken, reads, stats, rulesCache, probe, batchVars>>

----------------------------------------------------------------------------
(* MCP over HTTP: the session store of the /mcp routes.  The transport is   *)
(* the SDK's StreamableHTTPServerTransport, taken by its contract: on an    *)
(* initialize request it draws the session id from sessionIdGenerator and   *)
(* calls onsessioninitialized; on a DELETE it accepts it calls              *)
(* onsessionclosed before it closes; any other request leaves the           *)
(* callbacks alone.  These calls happen before the first suspension of      *)
(* handleRequest.                                                            *)
MaxTransports == 2  \* transports created by POST /mcp

\* the /mcp requests that can be in flight at once
ReqIds == {1, 2}

\* the mcp-session-id header: 0 is no header; an id not yet generated or
\* already deleted is an unknown id
HeaderIds == 0..MaxTransports

Methods == {"POST", "GET", "DELETE"}

NoTransports == <<>>

NoRequests == [q \in ReqIds |-> [pc |-> "idle"]]

\* `sessionId && mcpSessions.has(sessionId)`
KnownSession(sid) == sid # 0 /\ sid \in mcpSessions

\* randomUUID(): an id no transport has had
NewSessionId == 1 + Cardinality({t \in 1..Len(transports) : transports[t].sessionId # 0})

\* the transport of a stored session
TransportOf(sid) == CHOOSE t \in 1..Len(transports) : transports[t].sessionId = sid

Respond(q, status) ==
    [requests EXCEPT ![q] = [pc |-> "answered", method |-> requests[q].method,
                             sid |-> requests[q].sid, status |-> status]]

\* POST /mcp arrives: a known session id routes the message to the session's
\* transport; otherwise a transport is constructed, not stored, and
\* createFreshMCPServer is awaited
PostMcp(q) ==
    /\ requests[q].pc \in {"idle", "answered"}
    /\ \E sid \in HeaderIds, init \in BOOLEAN :
         IF KnownSession(sid)
         THEN /\ requests' = [requests EXCEPT ![q] =
                    [pc |-> "routed", method |-> "POST", sid |-> sid, init |-> init,
                     tr |-> TransportOf(sid)]]
              /\ UNCHANGED transports
         ELSE /\ Len(transports) < MaxTransports
              /\ transports' = Append(transports,
                                      [sessionId |-> 0, closed |-> FALSE, removed |-> FALSE])
              /\ requests' = [requests EXCEPT ![q] =
                    [pc |-> "creating", method |-> "POST", sid |-> sid, init |-> init,
                     tr |-> Len(transports) + 1]]
    /\ UNCHANGED <<invocations, mcpSessions, fileBroken, reads, stats, rulesFile, rulesCache, probe, batchVars>>

\* createFreshMCPServer returns: server.connect(transport) is awaited
ServerCreated(q) ==
    /\ requests[q].pc = "creating"
    /\ requests' = [requests EXCEPT ![q].pc = "connecting"]
    /\ UNCHANGED <<invocations, mcpSessions, transports, fileBroken, reads, stats, rulesFile, rulesCache, probe, batchVars>>

\* server.connect returns: the request is handed to the new transport.  An
\* initialize request makes it draw its session id and call
\* onsessioninitialized, which stores it; any other request is refused by
\* the transport, which has no session yet
ServerConnected(q) ==
    /\ requests[q].pc = "connecting"
    /\ IF requests[q].init
       THEN /\ transports' = [transports EXCEPT ![requests[q].tr].sessionId = NewSessionId]
            /\ mcpSessions' = mcpSessions \cup {NewSessionId}
       ELSE UNCHANGED <<transports, mcpSessions>>
    /\ requests' = [requests EXCEPT ![q].pc = "handling"]
    /\ UNCHANGED <<invocations, fileBroken, reads, stats, rulesFile, rulesCache, probe, batchVars>>

\* createFreshMCPServer, server.connect or transport.handleRequest throws:
\* the catch answers 500
McpThrows(q) ==
    /\ requests[q].pc \in {"creating", "connecting", "handling", "routed"}
    /\ requests' = Respond(q, 500)
    /\ UNCHANGED <<invocations, mcpSessions, transports, fileBroken, reads, stats, rulesFile, rulesCache, probe, batchVars>>

\* transport.handleRequest returns for a POST or a GET: the transport has
\* answered (400 from a new transport that was not given an initialize
\* request)
HandleRequestReturns(q) ==
    /\ requests[q].pc \in {"handling", "routed"}
    /\ requests' = Respond(q, IF requests[q].pc = "handling" /\ ~requests[q].init
                             THEN 400 ELSE 200)
    /\ UNCHANGED <<invocations, mcpSessions, transports, fileBroken, reads, stats, rulesFile, rulesCache, probe, batchVars>>

\* GET /mcp arrives: routed to the transport of a known session, else 404
GetMcp(q) ==
    /\ requests[q].pc \in {"idle", "answered"}
    /\ \E sid \in HeaderIds :
         requests' = [requests EXCEPT ![q] =
            IF KnownSession(sid)
            THEN [pc |-> "routed", method |-> "GET", sid |-> sid, init |-> FALSE,
                  tr |-> TransportOf(sid)]
            ELSE [pc |-> "answered", method |-> "GET", sid |-> sid, status |-> 404]]
    /\ UNCHANGED <<invocations, mcpSessions, transports, fileBroken, reads, stats, rulesFile, rulesCache, probe, batchVars>>

\* DELETE /mcp arrives: 404 for an unknown id; else the request is handed to
\* the session's transport, which either accepts it, calls onsessionclosed
\* (the store drops the id) and starts closing, or refuses it (an
\* unsupported protocol version) and has answered
DeleteMcp(q) ==
    /\ requests[q].pc \in {"idle", "answered"}
    /\ \E sid \in HeaderIds, accepted \in BOOLEAN :
         IF KnownSession(sid)
         THEN /\ requests' = [requests EXCEPT ![q] =
                    [pc |-> "deleting", method |-> "DELETE", sid |-> sid,
                     accepted |-> accepted, tr |-> TransportOf(sid)]]
              /\ mcpSessions' = IF accepted THEN mcpSessions \ {sid} ELSE mcpSessions
              /\ transports' = IF accepted
                                THEN [transports EXCEPT ![TransportOf(sid)].closed = TRUE]
                                ELSE transports
         ELSE /\ requests' = [requests EXCEPT ![q] =
                    [pc |-> "answered", method |-> "DELETE", sid |-> sid, status |-> 404]]
              /\ UNCHANGED <<mcpSessions, transports>>
    /\ UNCHANGED <<invocations, fileBroken, reads, stats, rulesFile, rulesCache, probe, batchVars>>

\* faulty variant: the route leaves the removal to the transport's callback
AfterDelete_CallbackOnly(store, sid) == store

\* `mcpSessions.delete(sessionId)` after the transport has handled the DELETE
AfterDelete(store, sid) == store \ {sid}

\* transport.handleRequest returns for a DELETE: the route deletes the id
DeleteReturns(q) ==
    /\ requests[q].pc = "deleting"
    /\ mcpSessions' = AfterDelete(mcpSessions, requests[q].sid)
    /\ transports' = [transports EXCEPT ![requests[q].tr].removed = TRUE]
    /\ requests' = Respond(q, IF requests[q].accepted THEN 200 ELSE 400)
    /\ UNCHANGED <<invocations, fileBroken, reads, stats, rulesFile, rulesCache, probe, batchVars>>

\* transport.handleRequest throws while it closes an accepted DELETE: the
\* catch answers 500 and the route's own delete is not reached
DeleteThrows(q) ==
    /\ requests[q].pc = "deleting"
    /\ requests[q].accepted
    /\ requests' = Respond(q, 500)
    /\ UNCHANGED <<invocations, mcpSessions, transports, fileBroken, reads, stats, rulesFile, rulesCache, probe, batchVars>>

NextSessions ==
    \E q \in ReqIds :
        \/ PostMcp(q)
        \/ ServerCreated(q)
        \/ ServerConnected(q)
        \/ McpThrows(q)
        \/ HandleRequestReturns(q)
        \/ GetMcp(q)
        \/ DeleteMcp(q)
        \/ DeleteReturns(q)
        \/ DeleteThrows(q)


\* config/rules.json is removed or made unparseable from outside the process
BreakFile ==
    /\ ~fileBroken
    /\ fileBroken' = TRUE
    /\ UNCHANGED <<invocations, sessionVars, reads, stats, rulesFile, rulesCache, probe, batchVars>>

\* config/rules.json is put back as it was
RepairFile ==
    /\ fileBroken
    /\ fileBroken' = FALSE
    /\ UNCHANGED <<invocations, sessionVars, reads, stats, rulesFile, rulesCache, probe, batchVars>>

----------------------------------------------------------------------------
(* Specifications *)

\* the engine functions called directly on drawn rule files and messages
InitFilter ==
    /\ rulesFile \in ProbeFiles \cup ContextFiles
    /\ rulesCache = <<>>
    /\ markFlag = <<>>
    /\ probe = NoProbe
    /\ runs = [r \in RunIds |-> IdleRun]
    /\ mailbox = FreshMailbox
    /\ scheduledTask = FALSE
    /\ timers = 0
    /\ fileBroken = FALSE
    /\ reads = 0
    /\ stats = ZeroStats
    /\ invocations = NoCalls
    /\ mcpSessions = {}
    /\ transports = NoTransports
    /\ requests = NoRequests

NextFilter ==
    \/ CallShouldIgnoreEmail
    \/ CallGetMatchingRules
    \/ CallShouldProcessEmail
    \/ CallBuildContextFromRules

SpecFilter == InitFilter /\ [][NextFilter]_vars

\* one processBatch call on a drawn list
Init ==
    /\ rulesFile = BatchFile
    /\ rulesCache = <<>>
    /\ markFlag \in MarkFlags
    /\ probe = NoProbe
    /\ runs = [r \in RunIds |-> IdleRun]
    /\ mailbox = FreshMailbox
    /\ scheduledTask = FALSE
    /\ timers = 0
    /\ fileBroken = FALSE
    /\ reads = 0
    /\ stats = ZeroStats
    /\ invocations = NoCalls
    /\ mcpSessions = {}
    /\ transports = NoTransports
    /\ requests = NoRequests

Next ==
    \/ CallProcessBatch(1)
    \/ BeginEmail(1)
    \/ GeneratorReturns(1)
    \/ GeneratorThrows(1)
    \/ SendReplyReturns(1)
    \/ SendReplyThrows(1)
    \/ MarkAsReadReturns(1)
    \/ AddLabelReturns(1)
    \/ PauseElapses(1)

Spec == Init /\ [][Next]_vars

\* one processBatch call while config/rules.json may be unreadable
InitConfig ==
    /\ rulesFile = BatchFile
    /\ rulesCache = <<>>
    /\ markFlag \in MarkFlags
    /\ probe = NoProbe
    /\ runs = [r \in RunIds |-> IdleRun]
    /\ mailbox = FreshMailbox
    /\ scheduledTask = FALSE
    /\ timers = 0
    /\ fileBroken \in BOOLEAN
    /\ reads = 0
    /\ stats = ZeroStats
    /\ invocations = NoCalls
    /\ mcpSessions = {}
    /\ transports = NoTransports
    /\ requests = NoRequests

NextConfig ==
    \/ Next
    \/ BreakFile
    \/ RepairFile

SpecConfig == InitConfig /\ [][NextConfig]_vars

\* one processUnreadEmails call on a mailbox with some messages unread
UnreadBoxes ==
    {[id \in MailIds |-> [unread |-> id \in u, labelled |-> FALSE, replies |-> 0]] :
        u \in SUBSET MailIds}

InitUnread ==
    /\ rulesFile = BatchFile
    /\ rulesCache = <<>>
    /\ markFlag \in MarkFlags
    /\ probe = NoProbe
    /\ runs = [r \in RunIds |-> IdleRun]
    /\ mailbox \in UnreadBoxes
    /\ scheduledTask = FALSE
    /\ timers = 0
    /\ fileBroken = FALSE
    /\ reads = 0
    /\ stats = ZeroStats
    /\ invocations = NoCalls
    /\ mcpSessions = {}
    /\ transports = NoTransports
    /\ requests = NoRequests

NextUnread ==
    \/ CallProcessUnreadEmails(1)
    \/ FetchReturns(1)
    \/ FetchThrows(1)
    \/ ProcessEmailStep(1)

SpecUnread == InitUnread /\ [][NextUnread]_vars

\* one processUnreadEmails call while rules are toggled and reloaded
NextPipeline ==
    \/ NextUnread
    \/ ToggleRule
    \/ ReloadRules

SpecPipeline == InitUnread /\ [][NextPipeline]_vars

\* the rule management tools on a file with two rules and ignore rules
EditFile ==
    [ignore_rules |-> <<[ignore_senders |-> << << <<"a">> >> >>,
                         ignore_subject_contains |-> <<>>]>>,
     rules |-> << <<RuleAt(1, TRUE, << << <<"a">> >> >>, <<"all">>),
                   RuleAt(2, FALSE, << << <<"A", "b">> >> >>, <<>>)>> >>]

InitEdit ==
    /\ rulesFile = EditFile
    /\ rulesCache = <<>>
    /\ markFlag = <<>>
    /\ probe = NoProbe
    /\ runs = [r \in RunIds |-> IdleRun]
    /\ mailbox = FreshMailbox
    /\ scheduledTask = FALSE
    /\ timers = 0
    /\ fileBroken = FALSE
    /\ reads = 0
    /\ stats = ZeroStats
    /\ invocations = NoCalls
    /\ mcpSessions = {}
    /\ transports = NoTransports
    /\ requests = NoRequests

NextEdit ==
    \/ ToggleRule
    \/ UpdateRule
    \/ BreakFile
    \/ RepairFile

SpecEdit == InitEdit /\ [][NextEdit]_vars

\* the /mcp routes of the HTTP server
SpecSessions == InitEdit /\ [][NextSessions]_vars

\* concurrent requests to the rule management tools
NextCalls ==
    \E c \in CallIds :
        \/ RequestEdit(c)
        \/ HandleEdit(c)

SpecCalls == InitEdit /\ [][NextCalls]_vars

\* the rule store while rules are edited and the file comes and goes
InitRules ==
    /\ rulesFile = StoreFile
    /\ rulesCache = <<>>
    /\ markFlag = <<>>
    /\ probe = NoProbe
    /\ runs = [r \in RunIds |-> IdleRun]
    /\ mailbox = FreshMailbox
    /\ scheduledTask = FALSE
    /\ timers = 0
    /\ fileBroken \in BOOLEAN
    /\ reads = 0
    /\ stats = ZeroStats
    /\ invocations = NoCalls
    /\ mcpSessions = {}
    /\ transports = NoTransports
    /\ requests = NoRequests

NextRules ==
    \/ CallEngine
    \/ ReloadRules
    \/ ToggleRule
    \/ UpdateRule
    \/ BreakFile
    \/ RepairFile

SpecRules == InitRules /\ [][NextRules]_vars

\* the running service: scheduler, timer ticks and on-demand runs over one mailbox
InitHarness ==
    /\ rulesFile = BatchFile
    /\ rulesCache = <<>>
    /\ markFlag \in MarkFlags
    /\ probe = NoProbe
    /\ runs = [r \in RunIds |-> IdleRun]
    /\ mailbox = FreshMailbox
    /\ scheduledTask = FALSE
    /\ timers = 0
    /\ fileBroken = FALSE
    /\ reads = 0
    /\ stats = ZeroStats
    /\ invocations = NoCalls
    /\ mcpSessions = {}
    /\ transports = NoTransports
    /\ requests = NoRequests

NextHarness ==
    \/ StartScheduler
    \/ TimerTick
    \/ StopScheduler
    \/ Shutdown
    \/ ProcessEmailsNow
    \/ \E r \in RunIds :
         \/ FetchReturns(r)
         \/ FetchThrows(r)
         \/ ProcessEmailStep(r)

SpecHarness == InitHarness /\ [][NextHarness]_vars

\* process_emails_now called through the MCP tool or the HTTP route, any
\* number of times while earlier runs are still going
NextTool ==
    \/ ProcessEmailsNow
    \/ \E r \in RunIds :
         \/ FetchReturns(r)
         \/ FetchThrows(r)
         \/ ProcessEmailStep(r)

\* the mailbox when the tool is first called: nothing unread, the message
\* that matches the rule, or that one and the one that matches nothing
ToolBoxes ==
    {box \in UnreadBoxes :
        {id \in MailIds : box[id].unread} \in {{}, {1}, {1, 2}}}

InitTool ==
    /\ rulesFile = BatchFile
    /\ rulesCache = <<>>
    /\ markFlag \in MarkFlags
    /\ probe = NoProbe
    /\ runs = [r \in RunIds |-> IdleRun]
    /\ mailbox \in ToolBoxes
    /\ scheduledTask = FALSE
    /\ timers = 0
    /\ fileBroken = FALSE
    /\ reads = 0
    /\ stats = ZeroStats
    /\ invocations = NoCalls
    /\ mcpSessions = {}
    /\ transports = NoTransports
    /\ requests = NoRequests

SpecTool == InitTool /\ [][NextTool]_vars

----------------------------------------------------------------------------
(* Properties.  The definitions of this section state what is expected of  *)
(* the program; they do not go through the engine's string functions.      *)

\* two characters that differ at most in case
SameLetter(c, d) == c = d \/ {c, d} \in {{"a", "A"}, {"b", "B"}}

\* k occurs in t as a substring, case ignored
OccursIn(k, t) ==
    \E i \in 0..(Len(t) - Len(k)) : \A j \in 1..Len(k) : SameLetter(t[i + j], k[j])

\* the entries of an optional list, as a set
Entries(opt) == IF opt = <<>> THEN {} ELSE {opt[1][i] : i \in 1..Len(opt[1])}

IgnoreSenderEntries(file) ==
    IF file.ignore_rules = <<>> THEN {} ELSE Entries(file.ignore_rules[1].ignore_senders)

IgnoreSubjectEntries(file) ==
    IF file.ignore_rules = <<>> THEN {}
    ELSE Entries(file.ignore_rules[1].ignore_subject_contains)

\* the sender or the subject of the message hits an ignore entry
IsIgnored(file, email) ==
    \/ \E s \in IgnoreSenderEntries(file) : OccursIn(s, email.from)
    \/ \E s \in IgnoreSubjectEntries(file) : OccursIn(s, email.subject)

\* subject + " " + body
SubjectAndBody(email) == email.subject \o <<" ">> \o email.body

\* the condition of a rule with keywords, by its match mode
ConditionHolds(rule, email) ==
    LET kws == Entries(rule.conditions.keywords)
    IN  IF rule.conditions.mustMatch = <<"all">>
        THEN \A k \in kws : OccursIn(k, SubjectAndBody(email))
        ELSE \E k \in kws : OccursIn(k, SubjectAndBody(email))

HasKeywords(rule) == Entries(rule.conditions.keywords) # {}

DeclaredRules(file) == OrEmpty(file.rules)

Statuses(run, set) == {k \in 1..Len(run.outcomes) : run.outcomes[k].status \in set}

\* the messages of a run that processEmail has returned for
Completed(run) ==
    CASE run.pc = "pause" -> run.idx
      [] run.pc = "done" -> Len(run.emails)
      [] run.pc \in {"idle", "fetch", "failed"} -> 0
      [] OTHER -> run.idx - 1

EventsOf(run, k) == SelectSeq(run.log, LAMBDA e : e.msg = k)

MailboxOps == {"sendReply", "markAsRead", "addLabel"}

MailboxCallsOf(run, k) ==
    SelectSeq(run.log, LAMBDA e : e.msg = k /\ e.ev = "call" /\ e.op \in MailboxOps)

OpsOf(events) == [i \in 1..Len(events) |-> events[i].op]

IsPrefix(s, t) == Len(s) <= Len(t) /\ \A i \in 1..Len(s) : s[i] = t[i]

Started(run) == run.pc \notin {"idle", "fetch", "failed"}

\* C1: processBatch's counters: total is the length of the input; processed,
\* skipped and failed count the success, the skipped and the failed-or-error
\* outcomes; their sum is the number of messages completed so far, and the
\* whole input when processBatch returns; the empty list gives all zeros.
C1_Counters ==
    \A r \in RunIds :
        LET run == runs[r]
            res == run.results
        IN  Started(run) =>
              /\ res.total = Len(run.emails)
              /\ res.processed = Cardinality(Statuses(run, {"success"}))
              /\ res.skipped = Cardinality(Statuses(run, {"skipped"}))
              /\ res.failed = Cardinality(Statuses(run, {"failed", "error"}))
              /\ res.processed + res.skipped + res.failed = Completed(run)
              /\ Len(run.outcomes) = Completed(run)
              /\ (run.pc = "done" => res.processed + res.skipped + res.failed = res.total)
              /\ (run.pc = "done" /\ run.emails = <<>> => res = ZeroResults)

\* a batch of three has returned with one message of each counter, the failed
\* one being an error
C1_Witness ==
    /\ runs[1].pc = "done"
    /\ runs[1].results = [total |-> 3, processed |-> 1, skipped |-> 1, failed |-> 1]
    /\ Statuses(runs[1], {"error"}) # {}

\* what a completed message's outcome must be, from its own events alone
OwnOutcome(run, k) ==
    LET evs == EventsOf(run, k)
        Has(op, ev) == \E i \in 1..Len(evs) : evs[i].op = op /\ evs[i].ev = ev
    IN  IF evs = <<>> THEN "skipped"
        ELSE IF Has("generate", "throw") \/ Has("sendReply", "throw") THEN "error"
        ELSE IF ~Has("sendReply", "call") THEN "failed"
        ELSE "success"

\* C2: a throw of the generator or of a mailbox call ends its message in the
\* error outcome with the failure's message; nothing more is called for that
\* message and no call is made twice; processBatch does not fail and returns
\* only when every message has its outcome; every outcome follows from the
\* events of its own message, whatever happened to the others.
C2_ErrorIsolated ==
    \A r \in RunIds :
        LET run == runs[r]
        IN  /\ \A i \in 1..Len(run.log) :
                 LET e == run.log[i]
                 IN  e.ev = "throw" =>
                        /\ e.msg <= Len(run.outcomes)
                        /\ run.outcomes[e.msg].status = "error"
                        /\ run.outcomes[e.msg].reason =
                             (IF e.op = "generate" THEN "generator_error" ELSE "send_error")
                        /\ \A j \in (i + 1)..Len(run.log) : run.log[j].msg # e.msg
            /\ \A k \in 1..Len(run.emails) :
                 \A op \in {"generate"} \cup MailboxOps :
                    Cardinality({i \in 1..Len(run.log) :
                        run.log[i].msg = k /\ run.log[i].op = op /\ run.log[i].ev = "call"}) <= 1
            /\ \A k \in 1..Len(run.outcomes) : run.outcomes[k].status = OwnOutcome(run, k)
            /\ (run.emails # <<>> => run.pc # "failed")
            /\ (run.pc = "done" => Len(run.outcomes) = Len(run.emails))

\* a batch has returned in which the first message ended in error and a later
\* one was replied to
C2_Witness ==
    /\ runs[1].pc = "done"
    /\ Len(runs[1].outcomes) >= 2
    /\ runs[1].outcomes[1].status = "error"
    /\ \E k \in 2..Len(runs[1].outcomes) : runs[1].outcomes[k].status = "success"

\* C3: a message that shouldProcessEmail rejects ends skipped with reason
\* no_matching_rules, and neither the generator nor sendReply, markAsRead or
\* addLabel is ever called for it.
C3_SkippedNoCalls ==
    \A r \in RunIds :
        LET run == runs[r]
        IN  /\ \A k \in 1..Len(run.outcomes) :
                 /\ ~ShouldProcessEmail(rulesFile, run.emails[k]) =>
                        run.outcomes[k] = [status |-> "skipped", reason |-> "no_matching_rules"]
                 /\ run.outcomes[k].status = "skipped" =>
                        /\ run.outcomes[k].reason = "no_matching_rules"
                        /\ EventsOf(run, k) = <<>>
            /\ \A i \in 1..Len(run.log) : ShouldProcessEmail(rulesFile, run.emails[run.log[i].msg])

\* a message from an ignored sender, which a rule matches, was skipped
C3_Witness ==
    \E k \in 1..Len(runs[1].outcomes) :
        /\ runs[1].outcomes[k].status = "skipped"
        /\ IsIgnored(rulesFile, runs[1].emails[k])
        /\ GetMatchingRules(rulesFile, runs[1].emails[k]) # <<>>

\* the generator gave back null or the empty string
WithoutText(e) == e.op = "generate" /\ e.ev = "return" /\ e.arg \in {<<>>, << <<>> >>}

\* C4: when the generator returns null or an empty text for a message that
\* passed the filter, the message ends failed with reason
\* response_generation_failed, no sendReply, markAsRead or addLabel call is
\* made for it, and the step that takes the answer adds one to results.failed.
C4_NoTextFails ==
    /\ [](\A r \in RunIds :
            \A i \in 1..Len(runs[r].log) :
                LET e == runs[r].log[i]
                IN  WithoutText(e) =>
                      /\ e.msg <= Len(runs[r].outcomes)
                      /\ runs[r].outcomes[e.msg] =
                           [status |-> "failed", reason |-> "response_generation_failed"]
                      /\ MailboxCallsOf(runs[r], e.msg) = <<>>)
    /\ [][\A r \in RunIds :
            (/\ Len(runs'[r].log) = Len(runs[r].log) + 1
             /\ WithoutText(runs'[r].log[Len(runs'[r].log)]))
            => runs'[r].results.failed = runs[r].results.failed + 1]_vars

\* the generator returned the empty string and the message was counted failed
C4_Witness ==
    \E i \in 1..Len(runs[1].log) :
        /\ runs[1].log[i].op = "generate"
        /\ runs[1].log[i].ev = "return"
        /\ runs[1].log[i].arg = << <<>> >>
        /\ runs[1].results.failed >= 1

\* the mailbox calls of a replied message, in their order
ReplySteps == IF markFlag = <<"true">> THEN <<"sendReply", "markAsRead", "addLabel">>
              ELSE <<"sendReply", "addLabel">>

\* C5: for a message the generator returned a text for: sendReply first; then
\* markAsRead only if MARK_AS_READ_AFTER_REPLY is 'true'; then addLabel with
\* 'AutoReplied' whatever the flag; then success.  Each call is made only when
\* the one before has returned, so no markAsRead or addLabel precedes the send.
C5_SendMarkLabel ==
    \A r \in RunIds :
        LET run == runs[r]
        IN  \A k \in 1..Len(run.emails) :
              LET calls == MailboxCallsOf(run, k)
                  evs == EventsOf(run, k)
              IN  /\ IsPrefix(OpsOf(calls), ReplySteps)
                  /\ \A i \in 1..Len(evs) :
                        /\ evs[i].op = "addLabel" /\ evs[i].ev = "call" =>
                              evs[i].arg = <<"AutoReplied">>
                        /\ evs[i].op \in {"markAsRead", "addLabel"} /\ evs[i].ev = "call" =>
                              /\ i > 1
                              /\ evs[i - 1].ev \in {"return", "swallowed"}
                              /\ evs[i - 1].op \in MailboxOps
                  /\ (k <= Len(run.outcomes) /\ run.outcomes[k].status = "success") =>
                        /\ OpsOf(calls) = ReplySteps
                        /\ evs[Len(evs)].op = "addLabel"
                        /\ evs[Len(evs)].ev \in {"return", "swallowed"}

\* with the flag set to the string 'false', a message reached success after
\* sendReply and addLabel only
C5_Witness ==
    /\ markFlag = <<"false">>
    /\ Len(runs[1].outcomes) >= 1
    /\ runs[1].outcomes[1].status = "success"
    /\ OpsOf(MailboxCallsOf(runs[1], 1)) = <<"sendReply", "addLabel">>

\* C6: within one processBatch the messages are taken in input order, one at
\* a time: when message i is started or in flight, the i-1 messages before it
\* have their outcome and the i-1 pauses after them have elapsed, nothing has
\* been called for a later message, and the events of the log never go back
\* to an earlier message.
C6_OneAtATime ==
    \A r \in RunIds :
        LET run == runs[r]
        IN  Started(run) =>
              /\ run.pc \in {"start", "gen", "send", "mark", "label"} =>
                    /\ run.idx \in 1..Len(run.emails)
                    /\ Len(run.outcomes) = run.idx - 1
                    /\ run.pauses = run.idx - 1
              /\ run.pc = "pause" => Len(run.outcomes) = run.idx /\ run.pauses = run.idx - 1
              /\ run.pc = "done" => Len(run.outcomes) = Len(run.emails)
                                     /\ run.pauses = Len(run.emails)
              /\ \A i \in 1..Len(run.log) :
                    /\ run.log[i].msg <= run.idx
                    /\ \A j \in 1..(i - 1) : run.log[j].msg <= run.log[i].msg
              /\ \A i \in 1..Len(run.log) :
                    run.log[i].msg > Len(run.outcomes) => run.log[i].msg = run.idx
              /\ \A k \in 1..Len(run.outcomes) :
                    run.outcomes[k].status = "success" =>
                        /\ run.outcomes[k].from = run.emails[k].from
                        /\ run.outcomes[k].subject = run.emails[k].subject

\* the second message's reply is being sent after the first one was replied to
C6_Witness ==
    /\ runs[1].pc = "send"
    /\ runs[1].idx = 2
    /\ runs[1].outcomes[1].status = "success"

\* C7: at any time at most one batch run is in progress (inside processBatch),
\* whichever of the startup run, a timer tick or process_emails_now started it.
C7_Serialized == Cardinality({r \in RunIds : InProgress(r)}) <= 1

\* C8: shouldProcessEmail is false for every message whose sender or subject
\* hits an ignore entry (case ignored), whatever the rules; for a message that
\* is not ignored it is true exactly when getMatchingRules is not empty.
C8_ShouldProcess ==
    probe.op = "shouldProcessEmail" =>
        IF IsIgnored(rulesFile, probe.email)
        THEN probe.result = FALSE
        ELSE probe.result = (GetMatchingRules(rulesFile, probe.email) # <<>>)

\* shouldProcessEmail was asked about an ignored message that a rule matches
C8_Witness ==
    /\ probe.op = "shouldProcessEmail"
    /\ \E s \in IgnoreSubjectEntries(rulesFile) : OccursIn(s, probe.email.subject)
    /\ GetMatchingRules(rulesFile, probe.email) # <<>>

\* C9: an enabled rule with at least one keyword is among the matching rules
\* exactly when its condition holds on subject + " " + body, case ignored:
\* every keyword with mustMatch 'all', at least one otherwise; the matching
\* rules come in the order of the rule file.
C9_MatchingRules ==
    probe.op = "getMatchingRules" =>
        LET rules == DeclaredRules(rulesFile)
            found == probe.result
            ids == {found[i].id : i \in 1..Len(found)}
        IN  /\ \A n \in 1..Len(rules) :
                 (rules[n].enabled /\ HasKeywords(rules[n])) =>
                     (rules[n].id \in ids <=> ConditionHolds(rules[n], probe.email))
            /\ \A i \in 1..Len(found) : \E n \in 1..Len(rules) : found[i] = rules[n]
            /\ \A i, j \in 1..Len(found) : i < j => found[i].id < found[j].id

\* both rules of a file matched, the first one needing both its keywords
C9_Witness ==
    /\ probe.op = "getMatchingRules"
    /\ Len(probe.result) = 2
    /\ probe.result[1].conditions.mustMatch = <<"all">>
    /\ Len(probe.result[1].conditions.keywords[1]) = 2
    /\ probe.result[1].conditions.keywords[1][1] # probe.result[1].conditions.keywords[1][2]

NeverMatches(rule) == ~rule.enabled \/ ~HasKeywords(rule)

\* C10: a rule that is disabled or has no keyword (an empty or an absent list)
\* is never among the matching rules; with only such rules in the file,
\* shouldProcessEmail is false for every message.
C10_DisabledOrEmpty ==
    /\ probe.op = "getMatchingRules" =>
          \A i \in 1..Len(probe.result) : ~NeverMatches(probe.result[i])
    /\ probe.op = "shouldProcessEmail" =>
          ((\A n \in 1..Len(DeclaredRules(rulesFile)) : NeverMatches(DeclaredRules(rulesFile)[n]))
              => probe.result = FALSE)

\* shouldProcessEmail was asked about a message that is not ignored and holds
\* a keyword of a disabled rule, the file having only rules that never match
C10_Witness ==
    /\ probe.op = "shouldProcessEmail"
    /\ ~IsIgnored(rulesFile, probe.email)
    /\ Len(DeclaredRules(rulesFile)) = 2
    /\ \A n \in 1..2 : NeverMatches(DeclaredRules(rulesFile)[n])
    /\ \E n \in 1..2 : HasKeywords(DeclaredRules(rulesFile)[n])
                         /\ ConditionHolds(DeclaredRules(rulesFile)[n], probe.email)

----------------------------------------------------------------------------
(* Context building *)

\* the contexts of the first n rules of a list, '. ' between neighbours
RECURSIVE JoinedUpTo(_, _)
JoinedUpTo(list, n) ==
    IF n = 0 THEN <<>>
    ELSE IF n = 1 THEN list[1].context
    ELSE JoinedUpTo(list, n - 1) \o <<".", " ">> \o list[n].context

\* C11 as stated: buildContextFromRules returns the literal 'This is an email
\* message' exactly when no rule matches the message; otherwise it returns
\* the contexts of the matching rules joined by '. ' in declared order.
C11_LiteralIffEmpty ==
    probe.op = "buildContextFromRules" =>
        LET matchingRules == GetMatchingRules(rulesFile, probe.email)
        IN  /\ (probe.result = FallbackContext) <=> (matchingRules = <<>>)
            /\ matchingRules # <<>> =>
                  probe.result = JoinedUpTo(matchingRules, Len(matchingRules))

\* C11, amended: buildContextFromRules returns the literal whenever no rule
\* matches the message, and otherwise the contexts of the matching rules
\* joined by '. ' in declared order, whatever those contexts spell.
C11_Context ==
    probe.op = "buildContextFromRules" =>
        LET matchingRules == GetMatchingRules(rulesFile, probe.email)
        IN  IF matchingRules = <<>>
            THEN probe.result = FallbackContext
            ELSE probe.result = JoinedUpTo(matchingRules, Len(matchingRules))

\* two rules with different contexts matched and the context was built
C11_Witness ==
    /\ probe.op = "buildContextFromRules"
    /\ Len(GetMatchingRules(rulesFile, probe.email)) = 2
    /\ GetMatchingRules(rulesFile, probe.email)[1].context
          # GetMatchingRules(rulesFile, probe.email)[2].context
    /\ probe.result # FallbackContext

----------------------------------------------------------------------------
(* Rule cache *)

\* the step is an engine call: the call recorded last is new, or it read the file
Accessed ==
    /\ probe'.op \in EngineFunctions \cup {"threw"}
    /\ probe' # probe \/ reads' # reads

\* the step is a reloadRules call
Reloaded == probe'.op = "reloadRules" /\ reads' # reads

\* what a read of the file leaves in the cache
AfterRead == IF fileBroken THEN <<>> ELSE <<rulesFile>>

\* C12: the rule file is read only when the cache is empty: an engine call on
\* an empty cache (the first one after startup or after reloadRules) reads
\* it, an engine call on a filled cache answers from the cache without a read
\* and leaves the cache as it is, and reloadRules always reads the file again
\* and replaces the cache, whatever the cache held.
C12_ReadOnlyWhenEmpty ==
    [][/\ reads' \in {reads, reads + 1}
       /\ reads' # reads => (rulesCache = <<>> \/ Reloaded)
       /\ rulesCache' # rulesCache => reads' = reads + 1
       /\ (Accessed /\ rulesCache # <<>>) =>
             /\ reads' = reads
             /\ rulesCache' = rulesCache
             /\ probe'.op # "threw"
             /\ probe'.result = EngineResult(probe'.op, rulesCache[1], probe'.email)
       /\ (Accessed /\ rulesCache = <<>>) =>
             /\ reads' = reads + 1
             /\ rulesCache' = AfterRead
       /\ Reloaded =>
             /\ reads' = reads + 1
             /\ rulesCache' = AfterRead]_vars

\* the file has been read twice, the second time after an edit, and
\* getMatchingRules was then answered with the edited rules
C12_Witness ==
    /\ probe.op = "getMatchingRules"
    /\ reads = 2
    /\ rulesCache # <<>>
    /\ rulesCache[1] # StoreFile
    /\ probe.result = GetMatchingRules(rulesCache[1], probe.email)
    /\ probe.result # GetMatchingRules(StoreFile, probe.email)

\* what an engine call made in the current state would answer
Answer(fn, email) ==
    EngineResult(fn, IF rulesCache # <<>> THEN rulesCache[1] ELSE rulesFile, email)

\* C13: once the cache is filled, a toggle_rule or update_rule that rewrites
\* the file leaves the cache alone and changes the answer of no engine
\* function for any message; calls keep being answered from the cached rule
\* set, which nothing but reloadRules replaces.  On an empty cache the next
\* call reads the file and so answers from the edited rules.
C13_EditsInvisible ==
    [][/\ rulesFile' # rulesFile => rulesCache' = rulesCache
       /\ (rulesFile' # rulesFile /\ rulesCache # <<>>) =>
             \A fn \in EngineFunctions, email \in StoreEmails :
                 Answer(fn, email)' = Answer(fn, email)
       /\ (rulesCache' # rulesCache /\ rulesCache # <<>>) => Reloaded
       /\ (Accessed /\ rulesCache # <<>>) =>
             probe'.result = EngineResult(probe'.op, rulesCache[1], probe'.email)
       /\ (Accessed /\ rulesCache = <<>> /\ ~fileBroken) =>
             probe'.result = EngineResult(probe'.op, rulesFile, probe'.email)]_vars

\* the file was read once, then edited, and an engine call made after the
\* edit gave the answer of the rules as they were before it
C13_Witness ==
    /\ probe.op \in EngineFunctions
    /\ reads = 1
    /\ rulesCache # <<>>
    /\ probe.disk # rulesCache[1]
    /\ probe.result = EngineResult(probe.op, rulesCache[1], probe.email)
    /\ probe.result # EngineResult(probe.op, probe.disk, probe.email)

\* C14: rules are auto-reloaded: once config/rules.json has changed, the
\* engine answers from the changed rules without any reloadRules call, so
\* every answer is the one the file on disk gives at the time of the call.
C14_AutoReloaded ==
    probe.op \in EngineFunctions =>
        probe.result = EngineResult(probe.op, probe.disk, probe.email)

----------------------------------------------------------------------------
(* Failures of the collaborators and of the rule file *)

\* the positions in the log of a run where a read of the rule file failed
FailedLoads(run) ==
    {i \in 1..Len(run.log) : run.log[i].op = "loadRules" /\ run.log[i].ev = "throw"}

\* C15: a failure to read or parse the rule file during a batch escalates to
\* the caller: the run fails with it, no message gets a result for it, and
\* the file is not read again by that run.
C15_ConfigEscalates ==
    \A r \in RunIds :
        /\ \A k \in Statuses(runs[r], {"error"}) :
               runs[r].outcomes[k].reason # "config_error"
        /\ FailedLoads(runs[r]) # {} => runs[r].pc = "failed"
        /\ Cardinality(FailedLoads(runs[r])) <= 1

----------------------------------------------------------------------------
(* processUnreadEmails *)

UnreadIds == {id \in MailIds : mailbox[id].unread}

\* C16: processUnreadEmails(limit) fetches at most `limit` unread messages.
\* A fetch that returns none ends the call with the all-zero counters and
\* nothing else done (no rule read, no collaborator call, no pause); a fetch
\* that returns messages hands exactly these to processBatch, whose counters
\* are the result; a fetch that fails ends the call with the failure and no
\* message processed.
C16_ProcessUnread ==
    /\ [](LET run == runs[1]
          IN  run.trigger = "call" =>
                /\ Len(run.emails) <= run.limit
                /\ (run.pc = "done" /\ run.emails = <<>>) =>
                      /\ run.results = ZeroResults
                      /\ run.outcomes = <<>> /\ run.log = <<>> /\ run.pauses = 0
                      /\ reads = 0
                /\ (run.pc = "done" /\ run.emails # <<>>) =>
                      /\ Len(run.outcomes) = Len(run.emails)
                      /\ run.results =
                            [total |-> Len(run.emails),
                             processed |-> Cardinality(Statuses(run, {"success"})),
                             skipped |-> Cardinality(Statuses(run, {"skipped"})),
                             failed |-> Cardinality(Statuses(run, {"failed", "error"}))]
                /\ run.pc = "failed" =>
                      /\ run.emails = <<>> /\ run.outcomes = <<>>
                      /\ run.log = <<>> /\ run.pauses = 0
                      /\ reads = 0)
    /\ [][(runs[1].pc = "fetch" /\ runs'[1].pc \notin {"fetch", "failed"}) =>
            LET fetched == runs'[1].emails
                want == IF runs[1].limit < Cardinality(UnreadIds)
                        THEN runs[1].limit ELSE Cardinality(UnreadIds)
            IN  /\ Len(fetched) = want
                /\ \A i \in 1..Len(fetched) : fetched[i] = EmailOf(fetched[i].id)
                                                /\ fetched[i].id \in UnreadIds
                /\ \A i, j \in 1..Len(fetched) : i # j => fetched[i].id # fetched[j].id
                /\ runs'[1].pc = IF fetched = <<>> THEN "done" ELSE "start"
                /\ mailbox' = mailbox]_vars

\* a call with limit 2 on three unread messages has processed two of them,
\* replied to one, and left the third untouched
C16_Witness ==
    /\ runs[1].trigger = "call"
    /\ runs[1].pc = "done"
    /\ runs[1].limit = 2
    /\ Len(runs[1].emails) = 2
    /\ runs[1].results.processed = 1
    /\ \A i \in 1..2 : runs[1].emails[i].id # 3
    /\ mailbox[3].unread /\ mailbox[3].replies = 0

\* the positions in the log of a run where `op` came back for a message
\* without having done its work
FailuresOf(run, op) ==
    {i \in 1..Len(run.log) : run.log[i].op = op /\ run.log[i].ev \notin {"call", "return"}}

\* the reply of message k of the run has been sent
ReplySent(run, k) ==
    \E i \in 1..Len(run.log) :
        run.log[i].msg = k /\ run.log[i].op = "sendReply" /\ run.log[i].ev = "return"

\* C17: a failure while the AutoReplied label is attached stays inside
\* addLabel: the message, whose reply was sent, ends in success and is counted
\* in processed, not in failed; processBatch does not fail and goes on to an
\* outcome for every message.
C17_LabelFailureSwallowed ==
    LET run == runs[1]
    IN  /\ \A i \in FailuresOf(run, "addLabel") :
             LET k == run.log[i].msg
             IN  /\ k <= Len(run.outcomes)
                 /\ run.outcomes[k].status = "success"
                 /\ ReplySent(run, k)
        /\ run.results.processed = Cardinality(Statuses(run, {"success"}))
        /\ run.results.failed = Cardinality(Statuses(run, {"failed", "error"}))
        /\ run.emails # <<>> => run.pc # "failed"
        /\ run.pc = "done" => Len(run.outcomes) = Len(run.emails)

\* a batch has returned in which the label of the first message could not be
\* attached: that message is a success, nothing failed, and the second
\* message was replied to after it
C17_Witness ==
    /\ runs[1].pc = "done"
    /\ Len(runs[1].outcomes) >= 2
    /\ \E i \in FailuresOf(runs[1], "addLabel") : runs[1].log[i].msg = 1
    /\ ~mailbox[runs[1].emails[1].id].labelled
    /\ runs[1].outcomes[1].status = "success"
    /\ runs[1].outcomes[2].status = "success"
    /\ runs[1].results.failed = 0

\* C18: with the mark-as-read flag set, a message whose mark-read call fails
\* ends in the error outcome and is counted in failed; the batch goes on.
C18_MarkReadFailureIsError ==
    LET run == runs[1]
    IN  \A i \in FailuresOf(run, "markAsRead") :
            LET k == run.log[i].msg
            IN  k <= Len(run.outcomes) =>
                  /\ run.outcomes[k].status = "error"
                  /\ run.results.failed >= 1

\* replies in the mailbox, all of them sent by the one run of the batch
RepliesSent == mailbox[1].replies + mailbox[2].replies + mailbox[3].replies

\* C20: a message ends in success exactly if sendReply returned for it:
\* whatever markAsRead and addLabel do afterwards, the outcome is success, and
\* no message is a success without its reply.  The processed counter is the
\* number of replies sent for the messages that have their outcome, and the
\* number of replies in the mailbox once the batch has returned.
C20_SuccessIffReplied ==
    LET run == runs[1]
    IN  /\ \A k \in 1..Len(run.outcomes) :
             (run.outcomes[k].status = "success") <=> ReplySent(run, k)
        /\ run.results.processed =
              Cardinality({k \in 1..Len(run.outcomes) : ReplySent(run, k)})
        /\ run.pc \in {"start", "pause", "done"} => run.results.processed = RepliesSent

\* a batch has returned with two replies sent, the first of them followed by
\* a mark-read and a label that both failed
C20_Witness ==
    /\ runs[1].pc = "done"
    /\ runs[1].results.processed = 2
    /\ RepliesSent = 2
    /\ \E i \in FailuresOf(runs[1], "markAsRead") : runs[1].log[i].msg = 1
    /\ \E i \in FailuresOf(runs[1], "addLabel") : runs[1].log[i].msg = 1
    /\ runs[1].outcomes[1].status = "success"

----------------------------------------------------------------------------
(* Processing statistics *)

\* the scheduled cycles (the startup run and the timer's runs) that have completed
ScheduledDone == {r \in RunIds : runs[r].trigger \in {"startup", "timer"} /\ runs[r].pc = "done"}

\* the sum of one counter over a set of runs
RECURSIVE CounterSum(_, _)
CounterSum(set, counter) ==
    IF set = {} THEN 0
    ELSE LET r == CHOOSE q \in set : TRUE
         IN  runs[r].results[counter] + CounterSum(set \ {r}, counter)

\* C19: the statistics take in every completed scheduled cycle: the totals
\* hold at least the counters of the scheduled cycles completed so far,
\* runs_today counts at least these cycles, and last_run is set once one of
\* them has completed.
C19_SchedulerUpdatesStats ==
    /\ stats.total_processed >= CounterSum(ScheduledDone, "processed")
    /\ stats.total_skipped >= CounterSum(ScheduledDone, "skipped")
    /\ stats.total_failed >= CounterSum(ScheduledDone, "failed")
    /\ stats.runs_today >= Cardinality(ScheduledDone)
    /\ ScheduledDone # {} => stats.last_run # <<>>

----------------------------------------------------------------------------
(* Cycles over one mailbox *)

\* C21: over any sequence of startup, timer and manual cycles every message
\* of the mailbox is sent at most one reply.
C21_AtMostOneReply == \A id \in MailIds : mailbox[id].replies <= 1

----------------------------------------------------------------------------
(* The context handed to the generator *)

\* the rules of a rule set that are enabled and whose condition holds on the
\* message, in declared order
MatchingIn(file, email) ==
    SelectSeq(DeclaredRules(file),
              LAMBDA rule : rule.enabled /\ HasKeywords(rule) /\ ConditionHolds(rule, email))

\* C22: whenever processEmail calls the generator, the context it passes is
\* the join of the contexts of the rules of the cached rule set that match
\* the message, and there is at least one: the decision to process and the
\* context come from the same rule set, so the fallback is never what the
\* pipeline passes on for want of a matching rule.
C22_ContextFromMatch ==
    [][(runs[1].pc = "start" /\ runs'[1].pc = "gen") =>
         LET email == runs[1].emails[runs[1].idx]
             call == runs'[1].log[Len(runs'[1].log)]
             matching == MatchingIn(rulesCache'[1], email)
         IN  /\ rulesCache' # <<>>
             /\ rulesCache # <<>> => rulesCache' = rulesCache
             /\ call.op = "generate" /\ call.ev = "call" /\ call.msg = runs[1].idx
             /\ matching # <<>>
             /\ call.arg = JoinedUpTo(matching, Len(matching))]_vars

\* the generator has been called with the context of a rule that the cached
\* rule set holds enabled while the file on disk has it disabled
C22_Witness ==
    /\ runs[1].pc = "gen"
    /\ rulesCache # <<>>
    /\ rulesCache[1].rules[1][1].enabled
    /\ ~rulesFile.rules[1][1].enabled
    /\ runs[1].log[Len(runs[1].log)].op = "generate"
    /\ runs[1].log[Len(runs[1].log)].arg = <<"x">>

----------------------------------------------------------------------------
(* Failed reads of the rule file *)

\* C23: a read of the rule file that fails puts nothing in the cache and
\* gives no rule set: the engine call ends with the exception and the cache
\* stays empty, so the next call reads again; a reloadRules whose read fails
\* leaves the cache empty, whatever it held.  The cache only ever takes the
\* content of a file that could be read.
C23_FailedReadLeavesEmpty ==
    [][/\ (Accessed /\ rulesCache = <<>> /\ fileBroken) =>
            /\ probe'.op = "threw"
            /\ rulesCache' = <<>>
            /\ reads' = reads + 1
       /\ (Accessed /\ probe'.op = "threw") => (rulesCache = <<>> /\ fileBroken)
       /\ (Reloaded /\ fileBroken) =>
            /\ probe'.threw
            /\ rulesCache' = <<>>
            /\ reads' = reads + 1
       /\ (rulesCache' # rulesCache /\ rulesCache' # <<>>) =>
            (~fileBroken /\ rulesCache' = <<rulesFile>>)]_vars

\* a reloadRules called on a filled cache failed to read the file, and the
\* cache is empty now
C23_Witness ==
    /\ probe.op = "reloadRules"
    /\ probe.threw
    /\ probe.had
    /\ rulesCache = <<>>

----------------------------------------------------------------------------
(* Scheduler *)

\* C24: for any sequence of startScheduler and stopScheduler calls the status
\* reports running exactly when a cron task is still active, and while it
\* reports not running no timer-triggered cycle starts.
C24_RunningIffTimer ==
    /\ [](scheduledTask <=> timers > 0)
    /\ [][~scheduledTask =>
            \A r \in RunIds : runs'[r].trigger = "timer" => runs[r].trigger = "timer"]_vars

\* C25: a batch cannot be cancelled once started: a stop of the scheduler
\* leaves every batch in progress as it is, and a batch that has started is
\* either in progress or has returned with an outcome for every message.
C25_NoCancellation ==
    /\ [](\A r \in RunIds :
            runs[r].emails # <<>> =>
                \/ InProgress(r)
                \/ runs[r].pc = "done" /\ Len(runs[r].outcomes) = Len(runs[r].emails))
    /\ [][(scheduledTask /\ ~scheduledTask') =>
            \A r \in RunIds : InProgress(r) => runs'[r] = runs[r]]_vars

----------------------------------------------------------------------------
(* Rule management tools *)

\* the rule of the file a call with this rule_id is about: the position of
\* the rule carrying the id, 0 when no rule does
Targeted(file, id) ==
    IF \E n \in 1..Len(DeclaredRules(file)) : DeclaredRules(file)[n].id = id
    THEN CHOOSE n \in 1..Len(DeclaredRules(file)) : DeclaredRules(file)[n].id = id
    ELSE 0

\* a step in which a management call of this name was answered
Answered(name) ==
    /\ probe'.op = name
    /\ probe' # probe \/ rulesFile' # rulesFile

\* the two files hold the same ignore rules and the same rules except,
\* possibly, the rule at position `at`
SameElsewhere(before, after, at) ==
    /\ after.ignore_rules = before.ignore_rules
    /\ Len(DeclaredRules(after)) = Len(DeclaredRules(before))
    /\ \A n \in 1..Len(DeclaredRules(before)) :
         n # at => DeclaredRules(after)[n] = DeclaredRules(before)[n]

\* C26: toggle_rule sets the enabled flag of the rule with the given id and
\* nothing else; update_rule replaces that rule's keywords when a keyword
\* list is given (an empty list included) and its context when a non-empty
\* context is given; every other field of the rule, every other rule and the
\* ignore rules stay as they were; with an unknown rule_id both answer with
\* an error and leave the file as it is.
C26_OnlyTheTarget ==
    [][LET at == Targeted(rulesFile, probe'.rule_id)
           old == DeclaredRules(rulesFile)[at]
           new == DeclaredRules(rulesFile')[at]
       IN  /\ (Answered("toggle_rule") /\ ~fileBroken /\ at # 0) =>
                 /\ ~probe'.isError
                 /\ SameElsewhere(rulesFile, rulesFile', at)
                 /\ new.enabled = probe'.enabled
                 /\ new.id = old.id
                 /\ new.conditions = old.conditions
                 /\ new.context = old.context
           /\ (Answered("update_rule") /\ ~fileBroken /\ at # 0) =>
                 /\ ~probe'.isError
                 /\ SameElsewhere(rulesFile, rulesFile', at)
                 /\ new.conditions.keywords =
                        IF Len(probe'.keywords) = 1 THEN probe'.keywords
                        ELSE old.conditions.keywords
                 /\ new.context =
                        IF Len(probe'.context) = 1 /\ Len(probe'.context[1]) > 0
                        THEN probe'.context[1]
                        ELSE old.context
                 /\ new.id = old.id
                 /\ new.enabled = old.enabled
                 /\ new.conditions.mustMatch = old.conditions.mustMatch
           /\ ((Answered("toggle_rule") \/ Answered("update_rule")) /\ at = 0) =>
                 /\ probe'.isError
                 /\ rulesFile' = rulesFile
      ]_vars

\* update_rule was called for rule 2 with an empty keyword list and an empty
\* context: the rule now has no keywords and still its context, its
\* enabled flag set by an earlier toggle_rule is kept, and rule 1 and the
\* ignore rules are those of the original file
C26_Witness ==
    /\ probe.op = "update_rule"
    /\ probe.rule_id = 2
    /\ ~probe.isError
    /\ probe.keywords = << <<>> >>
    /\ probe.context = << <<>> >>
    /\ DeclaredRules(rulesFile)[2].conditions.keywords = << <<>> >>
    /\ DeclaredRules(rulesFile)[2].context = <<"y">>
    /\ DeclaredRules(rulesFile)[2].enabled
    /\ DeclaredRules(rulesFile)[1] = DeclaredRules(EditFile)[1]
    /\ rulesFile.ignore_rules = EditFile.ignore_rules

\* the management calls that were answered without an error
Succeeded == {c \in CallIds : invocations[c].pc = "done" /\ ~invocations[c].isError}

\* the ways to put a set of calls in a row, each call once
SerialOrders(set) ==
    {o \in [1..Cardinality(set) -> set] :
        \A i, j \in 1..Cardinality(set) : o[i] = o[j] => i = j}

\* the file after the first k calls of the row ran one after the other on
\* the original file
RECURSIVE AppliedInOrder(_, _)
AppliedInOrder(o, k) ==
    IF k = 0 THEN EditFile ELSE Edited(AppliedInOrder(o, k - 1), invocations[o[k]].call)

\* C27: however the toggle_rule and update_rule invocations interleave, no
\* update is lost: the file is what the successful invocations give when
\* applied one after the other in some order.
C27_NoLostUpdate ==
    \E o \in SerialOrders(Succeeded) : AppliedInOrder(o, Cardinality(Succeeded)) = rulesFile

\* a toggle_rule and an update_rule for rule 1 arrived while the file was
\* still the original one; both were answered and the file holds the
\* effect of both
C27_Witness ==
    /\ Succeeded = {1, 2}
    /\ invocations[1].call.tool = "toggle_rule" /\ invocations[1].call.rule_id = 1
    /\ invocations[2].call.tool = "update_rule" /\ invocations[2].call.rule_id = 1
    /\ invocations[1].seen = EditFile /\ invocations[2].seen = EditFile
    /\ ~DeclaredRules(rulesFile)[1].enabled
    /\ DeclaredRules(rulesFile)[1].conditions.keywords = << << <<"b">> >> >>

----------------------------------------------------------------------------
(* Statistics *)

\* the runs of the MCP tool process_emails_now
ToolRuns == {r \in RunIds : runs[r].trigger = "mcp"}

\* those of them whose batch has returned
ToolBatches == {r \in ToolRuns : runs[r].pc = "done" /\ runs[r].emails # <<>>}

\* C28: for the MCP tool process_emails_now, a run that finds no unread
\* message leaves processing_stats unchanged, last_run and runs_today
\* included; a run that processes a batch adds its processed, skipped and
\* failed to the totals and 1 to runs_today; the totals never decrease and
\* their sum is the sum of the total fields of the batches run by the tool.
C28_ToolStatistics ==
    /\ [](/\ stats.total_processed + stats.total_skipped + stats.total_failed
                = CounterSum(ToolBatches, "total")
          /\ stats.runs_today = Cardinality(ToolBatches))
    /\ [][/\ stats'.total_processed >= stats.total_processed
          /\ stats'.total_skipped >= stats.total_skipped
          /\ stats'.total_failed >= stats.total_failed
          /\ \A r \in ToolRuns :
                /\ (runs[r].pc = "fetch" /\ runs'[r].pc = "done" /\ runs'[r].emails = <<>>) =>
                      stats' = stats
                /\ (InProgress(r) /\ runs'[r].pc = "done") =>
                      /\ stats'.total_processed
                            = stats.total_processed + runs'[r].results.processed
                      /\ stats'.total_skipped = stats.total_skipped + runs'[r].results.skipped
                      /\ stats'.total_failed = stats.total_failed + runs'[r].results.failed
                      /\ stats'.runs_today = stats.runs_today + 1
         ]_vars

\* the tool ran twice: the first run replied to the one unread message,
\* the second found no unread message, and the statistics still are those
\* of the first run
C28_Witness ==
    /\ ToolRuns = {1, 2}
    /\ runs[1].pc = "done" /\ runs[1].results.processed = 1
    /\ runs[2].pc = "done" /\ runs[2].emails = <<>>
    /\ stats.runs_today = 1
    /\ stats.last_run = <<1>>
    /\ stats.total_processed = 1

\* C29: after any sequence of batch runs triggered through the MCP tool or
\* the HTTP route process_emails_now, HTTP GET /api/tools/get_statistics
\* reports the same total_processed, total_skipped, total_failed, last_run
\* and runs_today as the MCP tool get_statistics.
C29_SurfacesAgree == HttpGetStatistics = McpGetStatistics(stats)

----------------------------------------------------------------------------
(* MCP HTTP sessions *)

\* the ids of the sessions that were initialized and neither closed through
\* their transport nor deleted by the route
LiveSessions ==
    {transports[t].sessionId :
        t \in {u \in 1..Len(transports) :
                  /\ transports[u].sessionId # 0
                  /\ ~transports[u].closed
                  /\ ~transports[u].removed}}

\* a request arrives on slot q in this step
Arrives(q) ==
    /\ requests[q].pc \in {"idle", "answered"}
    /\ requests'[q] # requests[q]

====
